---- MODULE Spec2Model ----
(***************************************************************************)
(* Model of the layout engine of print-prep: PrepareImage::process_image   *)
(* (src/op/prep.rs) with its validation (check), rotation decision and     *)
(* box-model solver (calc_sizes), over the unit types of src/units.        *)
(*                                                                         *)
(* A Length is [n, d, unit]: the value n/d (d > 0) tagged with its unit.   *)
(* Floating point products and quotients are modelled by exact rational    *)
(* arithmetic followed by Rust's round() (half away from zero).            *)
(* An Option is a sequence of length 0 (None) or 1 (Some).                 *)
(***************************************************************************)
EXTENDS Integers, Sequences, FiniteSets, TLC

\* ------------------------------------------------------------------ bounds
MaxPhoto == 3       \* photo width/height range over 1..MaxPhoto
MaxFormat == 6      \* pixel formats range over (MaxFormat-1)..MaxFormat
MaxSize == 2        \* image-size / framed-size range over 1..MaxSize
MaxBorder == 1      \* a padding / margin side is 0 or MaxBorder pixels

\* --------------------------------------------------------- program constants
DefaultDpi == 300   \* self.dpi.unwrap_or(300.0)

\* ------------------------------------------------------------------ Option
None == << >>
Some(x) == << x >>
is_some(o) == o # << >>
unwrap(o) == o[1]

\* ------------------------------------------------------------ arithmetic
\* Rust integer division: truncation toward zero (d > 0).
TruncDiv(a, d) == IF a >= 0 THEN a \div d ELSE -((-a) \div d)

\* f64::round of the quotient a/d (d > 0): nearest integer, half away from zero.
RoundQ(a, d) == IF a >= 0 THEN (2 * a + d) \div (2 * d)
                ELSE -((2 * (-a) + d) \div (2 * d))

\* ------------------------------------------------------------------ Length
Px(v) == [n |-> v, d |-> 1, unit |-> "px"]
Inch(a, b) == [n |-> a, d |-> b, unit |-> "in"]
Cm(a, b) == [n |-> a, d |-> b, unit |-> "cm"]

\* Length::value() as i32: the cast truncates toward zero.
value(l) == TruncDiv(l.n, l.d)

RECURSIVE GCD(_, _)
GCD(a, b) == IF b = 0 THEN a ELSE GCD(b, a % b)

\* The float n/d (n >= 0, d > 0) in lowest terms: equal floats are equal pairs.
Norm(n, d) == LET g == GCD(n, d) IN << n \div g, d \div g >>

\* The product (n/d) * (p/q) in lowest terms, cancelling before multiplying.
MulQ(n, d, p, q) ==
    LET a == Norm(n, q)
        b == Norm(p, d)
    IN  Norm(a[1] * b[1], b[2] * a[2])

\* The value in pixels before it is rounded; CM_TO_INCH = 1/2.54 = 100/254.
px_value(l, dpi) ==
    CASE l.unit = "cm" -> MulQ(l.n, l.d, 100 * dpi, 254)
      [] l.unit = "in" -> MulQ(l.n, l.d, dpi, 1)
      [] l.unit = "px" -> << l.n, l.d >>

\* Length::to(&LengthUnit::Px, dpi)
to_px(l, dpi) == Px(RoundQ(px_value(l, dpi)[1], px_value(l, dpi)[2]))

\* ----------------------------------------------------------------- FixSize
FixSize(w, h) == [width |-> w, height |-> h]
FixSize_px(w, h) == [width |-> Px(w), height |-> Px(h)]
FixSize_to_px(s, dpi) == [width |-> to_px(s.width, dpi), height |-> to_px(s.height, dpi)]
FixSize_rotate_90(s) == [width |-> s.height, height |-> s.width]

\* ----------------------------------------------------------------- Borders
Borders_each(t, r, b, l) == [top |-> t, right |-> r, bottom |-> b, left |-> l]
Borders_px(t, r, b, l) == [top |-> Px(t), right |-> Px(r), bottom |-> Px(b), left |-> Px(l)]
Borders_to_px(b, dpi) ==
    [top |-> to_px(b.top, dpi), right |-> to_px(b.right, dpi),
     bottom |-> to_px(b.bottom, dpi), left |-> to_px(b.left, dpi)]
Borders_rotate_90(b) == Borders_each(b.left, b.top, b.right, b.bottom)
\* Variant: rotate_270 turning the same way as rotate_90.
Borders_rotate_270_clockwise(b) == Borders_each(b.left, b.top, b.right, b.bottom)
Borders_rotate_270(b) == Borders_each(b.right, b.bottom, b.left, b.top)

\* ------------------------------------------------------ named print formats
\* create_formats(): the table, keyed by the size as written.
FORMATS ==
    ( FixSize(Cm(13, 1), Cm(9, 1))  :> FixSize(Inch(5, 1), Inch(7, 2)) ) @@
    ( FixSize(Cm(9, 1), Cm(13, 1))  :> FixSize(Inch(7, 2), Inch(5, 1)) ) @@
    ( FixSize(Cm(15, 1), Cm(10, 1)) :> FixSize(Inch(6, 1), Inch(4, 1)) ) @@
    ( FixSize(Cm(10, 1), Cm(15, 1)) :> FixSize(Inch(4, 1), Inch(6, 1)) ) @@
    ( FixSize(Cm(18, 1), Cm(13, 1)) :> FixSize(Inch(7, 1), Inch(5, 1)) ) @@
    ( FixSize(Cm(13, 1), Cm(18, 1)) :> FixSize(Inch(5, 1), Inch(7, 1)) ) @@
    ( FixSize(Cm(21, 1), Cm(15, 1)) :> FixSize(Inch(17, 2), Inch(6, 1)) ) @@
    ( FixSize(Cm(15, 1), Cm(21, 1)) :> FixSize(Inch(6, 1), Inch(17, 2)) ) @@
    ( FixSize(Cm(24, 1), Cm(18, 1)) :> FixSize(Inch(19, 2), Inch(7, 1)) ) @@
    ( FixSize(Cm(18, 1), Cm(24, 1)) :> FixSize(Inch(7, 1), Inch(19, 2)) )

\* to_print_format on a size with both dimensions (a FixSize always has both).
to_print_format(size) ==
    IF size \in DOMAIN FORMATS THEN FORMATS[size] ELSE size


\* ------------------------------------------------------------ PrepareImage
\* PrepareImage::check: Ok, or the PrintFormatError it returns.
Ok == "Ok"
ErrCount == "Over- or under-determined print format"
ErrCombination == "Invalid combination of print format options"

\* Variant: the forbidden pair is not tested.
check_without_pair_test(s) ==
    LET count == (IF is_some(s.image_size) THEN 1 ELSE 0)
               + (IF is_some(s.framed_size) THEN 1 ELSE 0)
               + (IF is_some(s.padding) THEN 1 ELSE 0)
               + (IF is_some(s.margins) THEN 1 ELSE 0)
    IN  IF count # 2 THEN ErrCount ELSE Ok

\* Variant: each bracket is counted on its own and must supply exactly one.
check_per_bracket(s) ==
    LET count1 == (IF is_some(s.image_size) THEN 1 ELSE 0)
                + (IF is_some(s.framed_size) THEN 1 ELSE 0)
        count2 == (IF is_some(s.padding) THEN 1 ELSE 0)
                + (IF is_some(s.margins) THEN 1 ELSE 0)
    IN  IF count1 # 1 \/ count2 # 1 THEN ErrCount
        ELSE IF is_some(s.framed_size) /\ is_some(s.margins) THEN ErrCombination
        ELSE Ok

check(s) ==
    LET count == (IF is_some(s.image_size) THEN 1 ELSE 0)
               + (IF is_some(s.framed_size) THEN 1 ELSE 0)
               + (IF is_some(s.padding) THEN 1 ELSE 0)
               + (IF is_some(s.margins) THEN 1 ELSE 0)
    IN  IF count # 2 THEN ErrCount
        ELSE IF is_some(s.framed_size) /\ is_some(s.margins) THEN ErrCombination
        ELSE Ok

\* Variant: the no-rotation flag is not consulted.
needs_rotation_ignoring_flag(s, w, h, img) ==
    ~((img.height > img.width) = (h > w))

\* process_image: let rotate = !(self.no_rotation || in_is_portrait == out_is_portrait)
needs_rotation(s, w, h, img) ==
    LET in_is_portrait == img.height > img.width
        out_is_portrait == h > w
    IN  ~(s.no_rotation \/ (in_is_portrait = out_is_portrait))

rotate_size(size, rot) == IF rot THEN FixSize_rotate_90(size) ELSE size

\* rotate_borders(borders, _rotate): the flag is not used.
rotate_borders(borders, rot) == borders

\* calc_sizes, "maximum size of image + padding".
max_framed(s, w, h, rot, dpi) ==
    IF is_some(s.framed_size)
    THEN rotate_size(FixSize_to_px(unwrap(s.framed_size), dpi), rot)
    ELSE IF is_some(s.margins)
    THEN LET mar == rotate_borders(Borders_to_px(unwrap(s.margins), dpi), rot)
         IN  FixSize_px(w - value(mar.right) - value(mar.left),
                        h - value(mar.top) - value(mar.bottom))
    ELSE LET img == rotate_size(FixSize_to_px(unwrap(s.image_size), dpi), rot)
             pad == rotate_borders(Borders_to_px(unwrap(s.padding), dpi), rot)
         IN  FixSize_px(value(img.width) + value(pad.right) + value(pad.left),
                        value(img.height) + value(pad.top) + value(pad.bottom))

\* calc_sizes, "maximum size of image (without padding)": the branch is
\* taken on self.framed_size.
max_image(s, framed, rot, dpi) ==
    IF is_some(s.framed_size)
    THEN rotate_size(FixSize_to_px(unwrap(s.framed_size), dpi), rot)
    ELSE LET pad == rotate_borders(Borders_to_px(unwrap(s.padding), dpi), rot)
         IN  FixSize_px(value(framed.width) - value(pad.right) - value(pad.left),
                        value(framed.height) - value(pad.top) - value(pad.bottom))

\* calc_sizes, "calculate padding".
calc_padding(s, framed, img, rot, dpi) ==
    IF is_some(s.padding)
    THEN rotate_borders(Borders_to_px(unwrap(s.padding), dpi), rot)
    ELSE LET hor == TruncDiv(value(framed.width) - value(img.width), 2)
             ver == TruncDiv(value(framed.height) - value(img.height), 2)
         IN  Borders_px(ver, hor, ver, hor)

\* Variant: the two branches of the fit are exchanged (cover instead of contain).
scaled_size_cover(img, img_width, img_height) ==
    LET W == value(img.width)
        H == value(img.height)
        wider == IF H > 0 THEN img_width * H >= W * img_height
                 ELSE IF H < 0 THEN img_width * H =< W * img_height
                 ELSE W < 0
    IN  IF wider
        THEN << IF H = 0 THEN 0 ELSE RoundQ(H * img_width, img_height), H >>
        ELSE << W, IF H = 0 THEN 0 ELSE RoundQ(W * img_height, img_width) >>

\* Variant: the proportional dimension is truncated instead of rounded.
scaled_size_truncating(img, img_width, img_height) ==
    LET W == value(img.width)
        H == value(img.height)
        wider == IF H > 0 THEN img_width * H >= W * img_height
                 ELSE IF H < 0 THEN img_width * H =< W * img_height
                 ELSE W < 0
    IN  IF wider
        THEN << W, IF H = 0 THEN 0 ELSE TruncDiv(W * img_height, img_width) >>
        ELSE << IF H = 0 THEN 0 ELSE TruncDiv(H * img_width, img_height), H >>

\* calc_sizes, "resize for original aspect ratio": <<scaled_width, scaled_height>>.
\* orig_aspect = img_width / img_height, out_aspect = W / H.  With H = 0 the
\* float quotient is +inf, -inf or NaN; a NaN cast to i32 is 0.
scaled_size(img, img_width, img_height) ==
    LET W == value(img.width)
        H == value(img.height)
        wider == IF H > 0 THEN img_width * H >= W * img_height
                 ELSE IF H < 0 THEN img_width * H =< W * img_height
                 ELSE W < 0
    IN  IF wider
        THEN << W, IF H = 0 THEN 0 ELSE RoundQ(W * img_height, img_width) >>
        ELSE << IF H = 0 THEN 0 ELSE RoundQ(H * img_width, img_height), H >>

\* Variant: the left padding is added twice, the right padding never.
actual_framed_left_twice(scaled, pad) ==
    FixSize_px(scaled[1] + value(pad.left) + value(pad.left),
               scaled[2] + value(pad.top) + value(pad.bottom))

\* calc_sizes, "actual size of image + padding".
actual_framed(scaled, pad) ==
    FixSize_px(scaled[1] + value(pad.left) + value(pad.right),
               scaled[2] + value(pad.top) + value(pad.bottom))

\* Variant: the free space is not halved.
calc_margins_not_halved(s, w, h, framed, rot, dpi) ==
    LET hor == w - value(framed.width)
        ver == h - value(framed.height)
    IN  IF is_some(s.margins)
        THEN LET mar == rotate_borders(Borders_to_px(unwrap(s.margins), dpi), rot)
                 diff_hor == TruncDiv(value(mar.right) - value(mar.left), 2)
                 diff_ver == TruncDiv(value(mar.top) - value(mar.bottom), 2)
             IN  Borders_px(ver + diff_ver, hor + diff_hor, ver - diff_ver, hor - diff_hor)
        ELSE Borders_px(ver, hor, ver, hor)

\* Variant: the centring halves are rounded instead of truncated.
calc_margins_rounding(s, w, h, framed, rot, dpi) ==
    LET hor == RoundQ(w - value(framed.width), 2)
        ver == RoundQ(h - value(framed.height), 2)
    IN  IF is_some(s.margins)
        THEN LET mar == rotate_borders(Borders_to_px(unwrap(s.margins), dpi), rot)
                 diff_hor == TruncDiv(value(mar.right) - value(mar.left), 2)
                 diff_ver == TruncDiv(value(mar.top) - value(mar.bottom), 2)
             IN  Borders_px(ver + diff_ver, hor + diff_hor, ver - diff_ver, hor - diff_hor)
        ELSE Borders_px(ver, hor, ver, hor)

\* Variant: the skew of the supplied margins is applied whole to each side.
calc_margins_full_skew(s, w, h, framed, rot, dpi) ==
    LET hor == TruncDiv(w - value(framed.width), 2)
        ver == TruncDiv(h - value(framed.height), 2)
    IN  IF is_some(s.margins)
        THEN LET mar == rotate_borders(Borders_to_px(unwrap(s.margins), dpi), rot)
                 diff_hor == value(mar.right) - value(mar.left)
                 diff_ver == value(mar.top) - value(mar.bottom)
             IN  Borders_px(ver + diff_ver, hor + diff_hor, ver - diff_ver, hor - diff_hor)
        ELSE Borders_px(ver, hor, ver, hor)

\* calc_sizes, "actual margins".
calc_margins(s, w, h, framed, rot, dpi) ==
    LET hor == TruncDiv(w - value(framed.width), 2)
        ver == TruncDiv(h - value(framed.height), 2)
    IN  IF is_some(s.margins)
        THEN LET mar == rotate_borders(Borders_to_px(unwrap(s.margins), dpi), rot)
                 diff_hor == TruncDiv(value(mar.right) - value(mar.left), 2)
                 diff_ver == TruncDiv(value(mar.top) - value(mar.bottom), 2)
             IN  Borders_px(ver + diff_ver, hor + diff_hor, ver - diff_ver, hor - diff_hor)
        ELSE Borders_px(ver, hor, ver, hor)

\* calc_sizes panics where it unwraps an option that is None.
calc_sizes_panics(s) ==
    \/ ~is_some(s.framed_size) /\ ~is_some(s.margins)
         /\ (~is_some(s.image_size) \/ ~is_some(s.padding))
    \/ ~is_some(s.framed_size) /\ ~is_some(s.padding)

\* calc_sizes: (image, framed, padding, margins).
calc_sizes(s, w, h, img_width, img_height, rot, dpi) ==
    LET framed0 == max_framed(s, w, h, rot, dpi)
        image0 == max_image(s, framed0, rot, dpi)
        pad == calc_padding(s, framed0, image0, rot, dpi)
        scaled == scaled_size(image0, img_width, img_height)
        framed == actual_framed(scaled, pad)
    IN  [image |-> FixSize_px(scaled[1], scaled[2]),
         framed |-> framed,
         padding |-> pad,
         margins |-> calc_margins(s, w, h, framed, rot, dpi)]


\* ------------------------------------------------------------------ inputs
Opt(S) == {None} \cup {Some(x) : x \in S}

Sizes == {FixSize(Px(w), Px(h)) : w \in 1..MaxSize, h \in 1..MaxSize}
Sides == {Px(0), Px(MaxBorder)}
BordersSet == {Borders_each(t, r, b, l) : t \in Sides, r \in Sides, b \in Sides, l \in Sides}
\* Pixel formats come without --dpi (the default applies); physical formats
\* with an explicit resolution of 1 dpi, which keeps every canvas a few pixels
\* wide (there the f64 evaluation of the aspect fit agrees with RoundQ).
PxFormats == {FixSize(Px(w), Px(h)) : w \in (MaxFormat - 1)..MaxFormat,
                                      h \in (MaxFormat - 1)..MaxFormat}
PhysFormats == {FixSize(Cm(15, 1), Cm(10, 1)), FixSize(Cm(10, 1), Cm(15, 1)),
                FixSize(Cm(13, 1), Cm(10, 1))}
FormatInputs == (PxFormats \X {None}) \cup (PhysFormats \X {Some(1)})
Photos == [width : 1..MaxPhoto, height : 1..MaxPhoto]

Layout(i, f, p, m) == [image_size |-> i, framed_size |-> f, padding |-> p, margins |-> m]

\* Every subset of the four layout options.  Up to two options take every
\* value; check reads only which options are present, so three or four
\* supplied options are represented by one value each.
LayoutOptions ==
    {Layout(i, f, None, None) : i \in Opt(Sizes), f \in Opt(Sizes)}
    \cup {Layout(None, None, p, m) : p \in Opt(BordersSet), m \in Opt(BordersSet)}
    \cup {Layout(Some(i), None, Some(p), None) : i \in Sizes, p \in BordersSet}
    \cup {Layout(Some(i), None, None, Some(m)) : i \in Sizes, m \in BordersSet}
    \cup {Layout(None, Some(f), Some(p), None) : f \in Sizes, p \in BordersSet}
    \cup {Layout(None, Some(f), None, Some(m)) : f \in Sizes, m \in BordersSet}
    \cup {Layout(i, f, p, m) : i \in Opt({FixSize(Px(MaxSize), Px(MaxSize))}),
                               f \in Opt({FixSize(Px(MaxSize), Px(MaxSize))}),
                               p \in Opt({Borders_px(0, 0, 0, 0)}),
                               m \in Opt({Borders_px(0, 0, 0, 0)})}

\* ------------------------------------------------------ strings and results
\* A string is the sequence of its characters (all ASCII, so the byte length
\* s.len() is Len(s)).  The model covers strings over Chars; within it a
\* float literal is a run of digits with at most one point.
Digits == {"0", "1", "2", "3", "4", "5", "6", "7", "8", "9"}
Letters == {"c", "m", "p", "x", "i", "n", "b", "l", "a", "k"}
Chars == Digits \cup Letters \cup {".", "/", "%"}

\* Result<T, E>, and the unwinding of a panic.
OkOf(x) == [tag |-> "Ok", val |-> << x >>]
Err(kind) == [tag |-> "Err", val |-> << kind >>]
Panic == [tag |-> "Panic", val |-> << >>]
is_ok(r) == r.tag = "Ok"
is_err(r) == r.tag = "Err"

RECURSIVE Pow10(_)
Pow10(k) == IF k = 0 THEN 1 ELSE 10 * Pow10(k - 1)

DigitVal(c) ==
    CASE c = "0" -> 0 [] c = "1" -> 1 [] c = "2" -> 2 [] c = "3" -> 3 [] c = "4" -> 4
      [] c = "5" -> 5 [] c = "6" -> 6 [] c = "7" -> 7 [] c = "8" -> 8 [] c = "9" -> 9

RECURSIVE DigitsValue(_)
DigitsValue(s) ==
    IF s = << >> THEN 0
    ELSE 10 * DigitsValue(SubSeq(s, 1, Len(s) - 1)) + DigitVal(s[Len(s)])

\* str::parse::<f32>: Ok(<<n, d>>) for a float literal, Err otherwise.
f32_from_str(s) ==
    LET points == {i \in 1..Len(s) : s[i] = "."}
        digits == {i \in 1..Len(s) : s[i] \in Digits}
    IN  IF points \cup digits # 1..Len(s) \/ Cardinality(points) > 1 \/ digits = {}
        THEN Err("ParseFloatError")
        ELSE LET ds == SelectSeq(s, LAMBDA c : c \in Digits)
                 frac == IF points = {} THEN 0 ELSE Len(s) - (CHOOSE i \in points : TRUE)
             IN  OkOf(Norm(DigitsValue(ds), Pow10(frac)))

\* LengthUnit::from_str
LengthUnit_from_str(s) ==
    CASE s = << "p", "x" >> -> OkOf("px")
      [] s = << "c", "m" >> -> OkOf("cm")
      [] s = << "i", "n" >> -> OkOf("in")
      [] OTHER -> Err("ParseEnumError")

\* Length::from_str.  s.len() - 2 underflows for a string shorter than two
\* bytes: the subtraction panics where overflow is checked, and where it wraps
\* the slice &s[pos..] is out of range and panics.
Length_from_str(s) ==
    IF Len(s) < 2 THEN Panic
    ELSE LET pos == Len(s) - 2
             unit_str == SubSeq(s, pos + 1, Len(s))
             alphabetic == \A i \in 1..2 : unit_str[i] \in Letters
             unit == IF alphabetic THEN LengthUnit_from_str(unit_str) ELSE OkOf("px")
             val_str == IF alphabetic THEN SubSeq(s, 1, pos) ELSE s
             val == f32_from_str(val_str)
         IN  IF is_err(unit) THEN unit
             ELSE IF is_err(val) THEN val
             ELSE OkOf([n |-> val.val[1][1], d |-> val.val[1][2], unit |-> unit.val[1]])

\* Variant: inches to centimetres with the factor 2.45.
Length_to_wrong_factor(l, unit, dpi) ==
    LET q(p, r) == [n |-> MulQ(l.n, l.d, p, r)[1], d |-> MulQ(l.n, l.d, p, r)[2],
                    unit |-> unit]
    IN  CASE unit = "px" -> to_px(l, dpi)
          [] unit = l.unit -> l
          [] l.unit = "cm" /\ unit = "in" -> q(100, 254)
          [] l.unit = "in" /\ unit = "cm" -> q(245, 100)
          [] l.unit = "px" /\ unit = "cm" -> q(254, 100 * dpi)
          [] l.unit = "px" /\ unit = "in" -> q(1, dpi)

\* Length::to(&self, unit, dpi); INCH_TO_CM = 2.54 = 254/100.
Length_to(l, unit, dpi) ==
    LET q(p, r) == [n |-> MulQ(l.n, l.d, p, r)[1], d |-> MulQ(l.n, l.d, p, r)[2],
                    unit |-> unit]
    IN  CASE unit = "px" -> to_px(l, dpi)
          [] unit = l.unit -> l
          [] l.unit = "cm" /\ unit = "in" -> q(100, 254)
          [] l.unit = "in" /\ unit = "cm" -> q(254, 100)
          [] l.unit = "px" /\ unit = "cm" -> q(254, 100 * dpi)
          [] l.unit = "px" /\ unit = "in" -> q(1, dpi)

\* str::split("/") collected.
RECURSIVE Split(_)
Split(s) ==
    LET slashes == {i \in 1..Len(s) : s[i] = "/"}
    IN  IF slashes = {} THEN << s >>
        ELSE LET i == CHOOSE k \in slashes : \A j \in slashes : k =< j
             IN  << SubSeq(s, 1, i - 1) >> \o Split(SubSeq(s, i + 1, Len(s)))

\* Size::from_str: a Size is [width, height] of Option<Length>.
Size_from_str(s) ==
    LET parts == Split(s)
        dim(part) == IF part = << "." >> THEN OkOf(None)
                     ELSE LET r == Length_from_str(part)
                          IN  IF is_ok(r) THEN OkOf(Some(r.val[1])) ELSE r
    IN  IF Len(parts) # 2 THEN Err("ParseStructError")
        ELSE LET w == dim(parts[1])
                 h == dim(parts[2])
             IN  IF ~is_ok(w) THEN w
                 ELSE IF ~is_ok(h) THEN h
                 ELSE IF w.val[1] = None /\ h.val[1] = None THEN Err("ParseStructError")
                 ELSE OkOf([width |-> w.val[1], height |-> h.val[1]])

\* FixSize::from_str
FixSize_from_str(s) ==
    LET parts == Split(s)
    IN  IF Len(parts) # 2 THEN Err("ParseStructError")
        ELSE LET w == Length_from_str(parts[1])
                 h == Length_from_str(parts[2])
             IN  IF ~is_ok(w) THEN w
                 ELSE IF ~is_ok(h) THEN h
                 ELSE OkOf(FixSize(w.val[1], h.val[1]))

\* Variant: Size::new without the test for two absent dimensions.
Size_new_unchecked(w, h) == OkOf([width |-> w, height |-> h])

\* Size::new(width, height)
Size_new(w, h) ==
    IF w = None /\ h = None THEN Err("ParseStructError")
    ELSE OkOf([width |-> w, height |-> h])

\* Size::rotate_90: Size::new(self.height, self.width).unwrap()
Size_rotate_90(s) ==
    LET r == Size_new(s.height, s.width)
    IN  IF is_ok(r) THEN r.val[1] ELSE Panic

\* f32's Display for n/d >= 0: the integer digits, then, for a value with a
\* fraction, a point and the fraction's digits (15.0 prints as 15).
DigitChar(i) == << "0", "1", "2", "3", "4", "5", "6", "7", "8", "9" >>[i + 1]

RECURSIVE IntDigits(_)
IntDigits(k) ==
    IF k < 10 THEN << DigitChar(k) >> ELSE IntDigits(k \div 10) \o << DigitChar(k % 10) >>

RECURSIVE FracDigits(_, _, _)
FracDigits(r, d, k) ==
    IF r = 0 \/ k = 0 THEN << >>
    ELSE << DigitChar((10 * r) \div d) >> \o FracDigits((10 * r) % d, d, k - 1)

f32_to_string(n, d) ==
    IF n % d = 0 THEN IntDigits(n \div d)
    ELSE IntDigits(n \div d) \o << "." >> \o FracDigits(n % d, d, 9)

\* LengthUnit's Display: the suffix that from_str reads.
LengthUnit_to_string(unit) ==
    CASE unit = "px" -> << "p", "x" >>
      [] unit = "cm" -> << "c", "m" >>
      [] unit = "in" -> << "i", "n" >>

\* Length's Display: value and unit ("5cm", "1024px").
Length_to_string(l) == f32_to_string(l.n, l.d) \o LengthUnit_to_string(l.unit)

\* Size's Display: "{}/{}", a missing dimension as ".".
Size_to_string(size) ==
    LET str(o) == IF is_some(o) THEN Length_to_string(unwrap(o)) ELSE << "." >>
    IN  str(size.width) \o << "/" >> \o str(size.height)

\* Borders::all(border)
Borders_all(border) == Borders_each(border, border, border, border)

\* The outcome of parsing parts in order with `?`, given the result of each
\* parse: the first part that does not parse ends from_str with its error
\* (or unwinds).
parse_all(results) ==
    LET bad == {i \in 1..Len(results) : ~is_ok(results[i])}
    IN  IF bad = {} THEN OkOf([i \in 1..Len(results) |-> results[i].val[1]])
        ELSE results[CHOOSE i \in bad : \A j \in bad : i =< j]

\* Variant: two components read as left-right/top-bottom.
Borders_from_str_two_swapped(s) ==
    LET parts == Split(s)
        ls == parse_all([i \in 1..Len(parts) |-> Length_from_str(parts[i])])
    IN  IF Len(parts) \notin {1, 2, 4} THEN Err("ParseStructError")
        ELSE IF ~is_ok(ls) THEN ls
        ELSE LET l == ls.val[1]
             IN  CASE Len(parts) = 1 -> OkOf(Borders_all(l[1]))
                   [] Len(parts) = 2 -> OkOf(Borders_each(l[2], l[1], l[2], l[1]))
                   [] Len(parts) = 4 -> OkOf(Borders_each(l[1], l[2], l[3], l[4]))

\* Borders::from_str
Borders_from_str(s) ==
    LET parts == Split(s)
        ls == parse_all([i \in 1..Len(parts) |-> Length_from_str(parts[i])])
    IN  IF Len(parts) \notin {1, 2, 4} THEN Err("ParseStructError")
        ELSE IF ~is_ok(ls) THEN ls
        ELSE LET l == ls.val[1]
             IN  CASE Len(parts) = 1 -> OkOf(Borders_all(l[1]))
                   [] Len(parts) = 2 -> OkOf(Borders_each(l[1], l[2], l[1], l[2]))
                   [] Len(parts) = 4 -> OkOf(Borders_each(l[1], l[2], l[3], l[4]))

\* Borders's Display: "{}/{}/{}/{}" of top, right, bottom, left.
Borders_to_string(b) ==
    Length_to_string(b.top) \o << "/" >> \o Length_to_string(b.right) \o << "/" >>
        \o Length_to_string(b.bottom) \o << "/" >> \o Length_to_string(b.left)

\* Scale::from_str, one component: `50%` is 50 * 0.01, `0.5` is 0.5.
Scale_component(part, factor) ==
    IF part # << >> /\ part[Len(part)] = "%"
    THEN LET r == f32_from_str(SubSeq(part, 1, Len(part) - 1))
         IN  IF is_ok(r) THEN OkOf(Some(MulQ(r.val[1][1], r.val[1][2], factor[1], factor[2])))
             ELSE r
    ELSE LET r == f32_from_str(part)
         IN  IF is_ok(r) THEN OkOf(Some(r.val[1])) ELSE r

\* Scale::from_str with the factor applied to a percentage; a Scale is
\* [width, height] of numbers << n, d >>.
Scale_from_str_with(s, factor) ==
    LET parts == Split(s)
    IN  IF Len(parts) < 1 \/ Len(parts) > 2 THEN Err("ParseStructError")
        ELSE LET w == IF parts[1] = << "." >> THEN OkOf(None)
                      ELSE Scale_component(parts[1], factor)
                 h == IF Len(parts) < 2 \/ parts[2] = << "." >> THEN OkOf(None)
                      ELSE Scale_component(parts[2], factor)
             IN  IF ~is_ok(w) THEN w
                 ELSE IF ~is_ok(h) THEN h
                 ELSE IF w.val[1] = None /\ h.val[1] = None THEN Err("ParseStructError")
                 ELSE LET width == IF w.val[1] = None THEN h.val[1] ELSE w.val[1]
                          height == IF h.val[1] = None THEN width ELSE h.val[1]
                      IN  OkOf([width |-> unwrap(width), height |-> unwrap(height)])

\* Variant: a percentage taken as the number itself.
Scale_from_str_percent_ignored(s) == Scale_from_str_with(s, << 1, 1 >>)

\* Scale::from_str
Scale_from_str(s) == Scale_from_str_with(s, << 1, 100 >>)

\* The digits of s from its first one that is not a zero.
RECURSIVE Significant(_)
Significant(s) ==
    IF s # << >> /\ s[1] = "0" THEN Significant(SubSeq(s, 2, Len(s))) ELSE s

\* str::parse::<u8>: decimal digits with a value up to 255.
u8_from_str(s) ==
    IF s = << >> \/ \E i \in 1..Len(s) : s[i] \notin Digits THEN Err("ParseIntError")
    ELSE IF Len(Significant(s)) > 3 \/ DigitsValue(Significant(s)) > 255
    THEN Err("ParseIntError")
    ELSE OkOf(DigitsValue(Significant(s)))

\* COLORS: of the table of named colors, the entry for black.
COLORS == { << << "b", "l", "a", "c", "k" >>, << 0, 0, 0, 255 >> >> }

\* Color::from_str; a Color is its channels << r, g, b, a >>.  With four
\* elements the alpha channel is read from parts[4], past the end of the four
\* parts, once the first three have parsed.
Color_from_str(s) ==
    LET parts == Split(s)
        named == {row \in COLORS : row[1] = s}
        first(n) == parse_all([i \in 1..n |-> u8_from_str(parts[i])])
    IN  IF named # {} THEN OkOf((CHOOSE row \in named : TRUE)[2])
        ELSE CASE Len(parts) = 1 ->
                    IF is_ok(first(1))
                    THEN OkOf(<< first(1).val[1][1], first(1).val[1][1], first(1).val[1][1], 255 >>)
                    ELSE first(1)
               [] Len(parts) = 3 ->
                    IF is_ok(first(3))
                    THEN OkOf(<< first(3).val[1][1], first(3).val[1][2], first(3).val[1][3], 255 >>)
                    ELSE first(3)
               [] Len(parts) = 4 -> IF is_ok(first(3)) THEN Panic ELSE first(3)
               [] OTHER -> Err("ParseStructError")

\* create_formats(): the table as written, string to string.
create_formats ==
    { << << "1", "3", "c", "m", "/", "9", "c", "m" >>,
         << "5", "i", "n", "/", "3", ".", "5", "i", "n" >> >>,
      << << "9", "c", "m", "/", "1", "3", "c", "m" >>,
         << "3", ".", "5", "i", "n", "/", "5", "i", "n" >> >>,
      << << "1", "5", "c", "m", "/", "1", "0", "c", "m" >>,
         << "6", "i", "n", "/", "4", "i", "n" >> >>,
      << << "1", "0", "c", "m", "/", "1", "5", "c", "m" >>,
         << "4", "i", "n", "/", "6", "i", "n" >> >>,
      << << "1", "8", "c", "m", "/", "1", "3", "c", "m" >>,
         << "7", "i", "n", "/", "5", "i", "n" >> >>,
      << << "1", "3", "c", "m", "/", "1", "8", "c", "m" >>,
         << "5", "i", "n", "/", "7", "i", "n" >> >>,
      << << "2", "1", "c", "m", "/", "1", "5", "c", "m" >>,
         << "8", ".", "5", "i", "n", "/", "6", "i", "n" >> >>,
      << << "1", "5", "c", "m", "/", "2", "1", "c", "m" >>,
         << "6", "i", "n", "/", "8", ".", "5", "i", "n" >> >>,
      << << "2", "4", "c", "m", "/", "1", "8", "c", "m" >>,
         << "9", ".", "5", "i", "n", "/", "7", "i", "n" >> >>,
      << << "1", "8", "c", "m", "/", "2", "4", "c", "m" >>,
         << "7", "i", "n", "/", "9", ".", "5", "i", "n" >> >> }

\* Variant: the table is not consulted.
format_to_print_format_no_lookup(size) ==
    IF size.width = None \/ size.height = None THEN Err("PrintFormatError")
    ELSE OkOf(size)

\* Variant: only the landscape keys of the table are looked up.
format_to_print_format_landscape_only(size) ==
    LET str == Size_to_string(size)
        landscape(key) == LET k == Size_from_str(key).val[1]
                          IN  unwrap(k.width).n * unwrap(k.height).d
                                 >= unwrap(k.height).n * unwrap(k.width).d
        hits == {row \in create_formats : row[1] = str /\ landscape(row[1])}
    IN  IF size.width = None \/ size.height = None THEN Err("PrintFormatError")
        ELSE IF hits # {}
        THEN LET parsed == Size_from_str((CHOOSE row \in hits : TRUE)[2])
             IN  IF is_ok(parsed) THEN OkOf(parsed.val[1]) ELSE Panic
        ELSE OkOf(size)

\* format::to_print_format(size: &Size)
format_to_print_format(size) ==
    LET str == Size_to_string(size)
        hits == {row \in create_formats : row[1] = str}
    IN  IF size.width = None \/ size.height = None THEN Err("PrintFormatError")
        ELSE IF hits # {}
        THEN LET parsed == Size_from_str((CHOOSE row \in hits : TRUE)[2])
             IN  IF is_ok(parsed) THEN OkOf(parsed.val[1]) ELSE Panic
        ELSE OkOf(size)

\* --------------------------------------------------- inputs of the unit types
MaxLen == 4           \* argument strings over Alphabet have up to MaxLen characters
MaxConversions == 2   \* a parsed length is converted up to MaxConversions times
MaxTurns == 4         \* a value is rotated by up to MaxTurns quarter turns

Alphabet == {"1", "5", ".", "/", "c", "m", "p", "x"}

RECURSIVE StringsOfLen(_)
StringsOfLen(k) ==
    IF k = 0 THEN {<< >>}
    ELSE {Append(s, c) : s \in StringsOfLen(k - 1), c \in Alphabet}

\* Arguments taken from the documentation and the tests.
NamedArgs ==
    { << "1", "5", "c", "m", "/", "1", "0", "c", "m" >>,
      << "1", "5", ".", "0", "c", "m", "/", "1", "0", ".", "0", "c", "m" >>,
      << "1", "0", "c", "m", "/", "1", "5", "c", "m" >>,
      << "1", "3", "c", "m", "/", "9", "c", "m" >>,
      << "2", "1", "c", "m", "/", "1", "5", "c", "m" >>,
      << "1", "0", "c", "m", "/", "." >>,
      << "1", "0", "i", "n", "/", "." >>,
      << ".", "/", "1", "0", "i", "n" >>,
      << "1", "0", ".", "5", "p", "x" >>,
      << "0", ".", "5", "i", "n" >>,
      << "1", "0", "2", "4" >>,
      << "2", "5", "4", "c", "m" >>,
      << "1", "0", "0", "i", "n" >>,
      << "3", "0", "0", "0", "0", "p", "x" >>,
      << "3", ".", "5", "i", "n" >>,
      << "1", "0", "2", "4", "p", "x", "/", "5", "1", "2", "p", "x" >>,
      << "9", "c", "m", "/", "1", "3", "c", "m" >>,
      << "1", "8", "c", "m", "/", "1", "3", "c", "m" >>,
      << "1", "3", "c", "m", "/", "1", "8", "c", "m" >>,
      << "1", "5", "c", "m", "/", "2", "1", "c", "m" >>,
      << "2", "4", "c", "m", "/", "1", "8", "c", "m" >>,
      << "1", "8", "c", "m", "/", "2", "4", "c", "m" >>,
      << "2", "c", "m" >>,
      << "b", "l", "a", "c", "k" >>,
      << "1", "2", "8" >>,
      << "2", "5", "6" >>,
      << "1", "/", "2" >>,
      << "1", "/", "2", "/", "3" >>,
      << "1", "/", "2", "/", "3", "/", "4" >>,
      << "2", "5", "5", "/", "2", "5", "5", "/", "2", "5", "5", "/", "0" >>,
      << "1", "/", "2", "/", "3", "/", "4", "/", "5" >>,
      << "1", "c", "m", "/", "2", "c", "m" >>,
      << "1", "c", "m", "/", "2", "c", "m", "/", "3", "c", "m" >>,
      << "1", "c", "m", "/", "2", "c", "m", "/", "3", "c", "m", "/", "4", "c", "m" >>,
      << "1", ".", "5", "c", "m", "/", "2", "i", "n", "/", "3", "p", "x", "/", "4" >>,
      << "1", "c", "m", "/", "2", "c", "m", "/", "3", "c", "m", "/", "4", "c", "m", "/", "5", "c", "m" >> }

\* Scale arguments: all short strings over ScaleAlphabet, and those of the
\* documentation and the test.
ScaleAlphabet == {"5", "%", ".", "/"}

RECURSIVE ScaleStringsOfLen(_)
ScaleStringsOfLen(k) ==
    IF k = 0 THEN {<< >>}
    ELSE {Append(s, c) : s \in ScaleStringsOfLen(k - 1), c \in ScaleAlphabet}

ScaleArgs ==
    UNION {ScaleStringsOfLen(k) : k \in 0..MaxLen}
        \cup { << "5", "0", "%", "/", "1", "0", "0", "%" >>,
                << ".", "/", "2", "0", "%" >>,
                << "0", ".", "5", "/", "0", ".", "2", "5" >>,
                << "2", "0", "%", "/", "." >>,
                << "5", "0", "%", "/", "5", "0", "%", "/", "5", "0", "%" >> }

Args == UNION {StringsOfLen(k) : k \in 0..MaxLen} \cup NamedArgs \cup ScaleArgs

LengthUnits == {"px", "cm", "in"}
DpiValues == {1, 72, 300}

\* ------------------------------------------------------------------- state
VARIABLES
    self,       \* the PrepareImage options
    image,      \* the input photo's pixel size
    pc,         \* position in process_image, or in the handling of an argument
    rotate,     \* process_image: rotate
    width,      \* process_image: canvas width (after the swap)
    height,     \* process_image: canvas height (after the swap)
    result,     \* Some((image, framed, padding, margins)) once calc_sizes returned
    error,      \* Some(message) once process_image returned Err
    arg,        \* a command line argument: the string handed to from_str
    parsed,     \* Some([type, res]) once arg was parsed as type, with Result res
    lengths,    \* the parsed Length followed by its successive conversions
    units,      \* the target units of those conversions
    cdpi,       \* Some(dpi) once a conversion has used it
    noisy,      \* per length: the f32 held differs from the exact n/d of the model
    print_format, \* Some(result of to_print_format) on the parsed Size
    shape,      \* Some([type, val, base, turns, converted]): a Size, FixSize or
                \* Borders val, obtained from base by turns quarter turns
    files,      \* main: the input files, a sequence of paths
    output,     \* main: cli.output, the output pattern
    workers,    \* main: per file, the position of the closure of for_each in
                \* pc, its out_path, and the outcome of op.execute in processed
    writes,     \* the files written so far, as << index of the file, output path >>
    exit_code,  \* Some(status) once the process has ended
    img,        \* scale_image: Some(size of img), the halved image
    mode,       \* scale_image: mode
    incremental, \* scale_image: incremental
    scaled      \* Some(size of the image scale_image returned)

layout_vars == << self, image, rotate, width, height, result, error >>
unit_vars == << arg, parsed, lengths, units, cdpi, noisy, print_format, shape >>
batch_vars == << files, output, workers, writes, exit_code >>
scale_vars == << img, mode, incremental, scaled >>
vars == << self, image, pc, rotate, width, height, result, error,
           arg, parsed, lengths, units, cdpi, noisy, print_format, shape,
           files, output, workers, writes, exit_code, img, mode, incremental, scaled >>

\* No batch is running and no image is being scaled.
NoBatch ==
    /\ files = << >>
    /\ output = << >>
    /\ workers = << >>
    /\ writes = {}
    /\ exit_code = None
NoScaling ==
    /\ img = None
    /\ mode = "Stretch"
    /\ incremental = FALSE
    /\ scaled = None

\* The invocation --format 15cm/10cm --dpi 300 --image-size 1200px/800px
\* --padding 20px on a 4000x3000 photo.
ScenarioOptions ==
    [image_size |-> Some(FixSize(Px(1200), Px(800))), framed_size |-> None,
     padding |-> Some(Borders_each(Px(20), Px(20), Px(20), Px(20))), margins |-> None,
     format |-> FixSize(Cm(15, 1), Cm(10, 1)), dpi |-> Some(300), no_rotation |-> FALSE]
ScenarioPhoto == [width |-> 4000, height |-> 3000]

\* The invocation --format 40px/30px --padding 2px --margins 3px/10px/6px/4px
\* on a 2x1 photo: unequal margins, one axis with an even difference and one
\* with an odd, negative one.
MarginScenarioOptions ==
    [image_size |-> None, framed_size |-> None,
     padding |-> Some(Borders_px(2, 2, 2, 2)), margins |-> Some(Borders_px(3, 10, 6, 4)),
     format |-> FixSize(Px(40), Px(30)), dpi |-> None, no_rotation |-> FALSE]
MarginScenarioPhoto == [width |-> 2, height |-> 1]

Init ==
    /\ \/ /\ \E l \in LayoutOptions, fd \in FormatInputs, nr \in BOOLEAN :
                self = [image_size |-> l.image_size, framed_size |-> l.framed_size,
                        padding |-> l.padding, margins |-> l.margins,
                        format |-> fd[1], dpi |-> fd[2], no_rotation |-> nr]
          /\ image \in Photos
       \/ self = ScenarioOptions /\ image = ScenarioPhoto
       \/ self = MarginScenarioOptions /\ image = MarginScenarioPhoto
    /\ pc = "start"
    /\ rotate = FALSE
    /\ width = 0
    /\ height = 0
    /\ result = None
    /\ error = None
    /\ arg = << >>
    /\ parsed = None
    /\ lengths = << >>
    /\ units = << >>
    /\ cdpi = None
    /\ noisy = << >>
    /\ print_format = None
    /\ shape = None
    /\ NoBatch
    /\ NoScaling

\* let dpi = self.dpi.unwrap_or(300.0)
Dpi(s) == IF is_some(s.dpi) THEN unwrap(s.dpi) ELSE DefaultDpi

\* to_print_format(&self.format)?.to(&LengthUnit::Px, dpi)
format_px(s) == FixSize_to_px(to_print_format(s.format), Dpi(s))

\* process_image: self.check()?
Check ==
    /\ pc = "start"
    /\ IF check(self) = Ok
       THEN pc' = "checked" /\ error' = error
       ELSE pc' = "error" /\ error' = Some(check(self))
    /\ UNCHANGED << self, image, rotate, width, height, result >>
    /\ UNCHANGED << unit_vars, batch_vars, scale_vars >>

\* process_image: canvas size in pixels and the rotation decision.
DetermineRotation ==
    /\ pc = "checked"
    /\ LET fmt == format_px(self)
           w == value(fmt.width)
           h == value(fmt.height)
           rot == needs_rotation(self, w, h, image)
       IN  /\ rotate' = rot
           /\ width' = IF rot THEN h ELSE w
           /\ height' = IF rot THEN w ELSE h
    /\ pc' = "rotated"
    /\ UNCHANGED << self, image, result, error >>
    /\ UNCHANGED << unit_vars, batch_vars, scale_vars >>

\* process_image: self.calc_sizes(width, height, image.width(), image.height(), rotate, dpi)
CalcSizes ==
    /\ pc = "rotated"
    /\ IF calc_sizes_panics(self)
       THEN pc' = "panic" /\ result' = result
       ELSE /\ pc' = "done"
            /\ result' = Some(calc_sizes(self, width, height, image.width, image.height,
                                         rotate, Dpi(self)))
    /\ UNCHANGED << self, image, rotate, width, height, error >>
    /\ UNCHANGED << unit_vars, batch_vars, scale_vars >>

Next == Check \/ DetermineRotation \/ CalcSizes

Spec == Init /\ [][Next]_vars

TypeOK ==
    /\ pc \in {"start", "checked", "rotated", "done", "error", "panic"}
    /\ rotate \in BOOLEAN
    /\ is_some(result) <=> pc = "done"
    /\ is_some(error) <=> pc = "error"


\* ------------------------------------------------ handling of one argument
\* The unit types on their own: an argument string is parsed as a Length, a
\* Size or a FixSize; a parsed Length is converted between units, a parsed
\* Size is looked up as a print format.
InitUnits ==
    /\ arg \in Args
    /\ pc = "arg"
    /\ parsed = None
    /\ lengths = << >>
    /\ units = << >>
    /\ cdpi = None
    /\ noisy = << >>
    /\ print_format = None
    /\ shape = None
    /\ NoBatch
    /\ NoScaling
    /\ self = ScenarioOptions
    /\ image = ScenarioPhoto
    /\ rotate = FALSE
    /\ width = 0
    /\ height = 0
    /\ result = None
    /\ error = None

RECURSIVE IsPow2(_)
IsPow2(d) == d = 1 \/ (d % 2 = 0 /\ IsPow2(d \div 2))

\* Where from_str leaves the caller: with the value, with an Err, or unwinding.
after_parse(res, ok_pc) ==
    CASE res.tag = "Ok" -> ok_pc
      [] res.tag = "Err" -> "error"
      [] res.tag = "Panic" -> "panic"

\* The value a successful from_str or new hands over, not yet rotated.
shape_of(type, res) ==
    IF is_ok(res)
    THEN Some([type |-> type, val |-> res.val[1], base |-> res.val[1], turns |-> 0,
               converted |-> FALSE])
    ELSE None

\* arg.parse::<Length>()
ParseLength ==
    /\ pc = "arg"
    /\ LET res == Length_from_str(arg)
       IN  /\ parsed' = Some([type |-> "Length", res |-> res])
           /\ pc' = after_parse(res, "length")
           /\ lengths' = IF is_ok(res) THEN << res.val[1] >> ELSE lengths
           /\ noisy' = IF is_ok(res) THEN << ~IsPow2(res.val[1].d) >> ELSE noisy
    /\ UNCHANGED << arg, units, cdpi, print_format, shape >>
    /\ UNCHANGED << layout_vars, batch_vars, scale_vars >>

\* arg.parse::<Size>()
ParseSize ==
    /\ pc = "arg"
    /\ LET res == Size_from_str(arg)
       IN  /\ parsed' = Some([type |-> "Size", res |-> res])
           /\ pc' = after_parse(res, "size")
           /\ shape' = shape_of("Size", res)
    /\ UNCHANGED << arg, lengths, units, cdpi, noisy, print_format >>
    /\ UNCHANGED << layout_vars, batch_vars, scale_vars >>

\* arg.parse::<FixSize>()
ParseFixSize ==
    /\ pc = "arg"
    /\ LET res == FixSize_from_str(arg)
       IN  /\ parsed' = Some([type |-> "FixSize", res |-> res])
           /\ pc' = after_parse(res, "fixsize")
           /\ shape' = shape_of("FixSize", res)
    /\ UNCHANGED << arg, lengths, units, cdpi, noisy, print_format >>
    /\ UNCHANGED << layout_vars, batch_vars, scale_vars >>

\* The exact value a/b lies so close to a .5 tie (within 2^-20 of its size)
\* that the error of a few f32 operations decides which way round() goes.
NearTie(a, b) ==
    LET gap == 2 * (a % b) - b
    IN  (IF gap >= 0 THEN gap ELSE -gap) =< a \div 524288

\* The Lengths that l.to(unit, dpi) can return.  The f32 arithmetic is exact
\* for an exactly held inch or pixel value; a value that went through the
\* factor 2.54 or its reciprocal carries a relative error of some 2^-24, which
\* round() turns into either neighbour when the exact value is at a tie.
ConvertOutcomes(l, unit, dpi, inexact) ==
    LET v == px_value(l, dpi)
    IN  IF unit = "px" /\ (inexact \/ l.unit = "cm") /\ NearTie(v[1], v[2])
        THEN {Px(v[1] \div v[2]), Px(v[1] \div v[2] + 1)}
        ELSE {Length_to(l, unit, dpi)}

\* Whether the f32 result r of l.to(unit, dpi) differs from the exact one: a
\* pixel count is held exactly, an identity conversion copies the value, a
\* division by dpi is exact when its quotient is a binary fraction, and the
\* factors 2.54 and 1/2.54 are not exact.
inexact_after(l, unit, r, inexact) ==
    CASE unit = "px" -> FALSE
      [] unit = l.unit -> inexact
      [] l.unit = "px" /\ unit = "in" -> inexact \/ ~IsPow2(r.d)
      [] OTHER -> TRUE

\* length.to(&unit, dpi), with the dpi of the run
Convert ==
    /\ pc = "length"
    /\ Len(units) < MaxConversions
    /\ \E unit \in LengthUnits, dpi \in DpiValues :
          LET l == lengths[Len(lengths)]
          IN  /\ cdpi \in {None, Some(dpi)}
              /\ cdpi' = Some(dpi)
              /\ \E r \in ConvertOutcomes(l, unit, dpi, noisy[Len(noisy)]) :
                    /\ lengths' = Append(lengths, r)
                    /\ noisy' = Append(noisy, inexact_after(l, unit, r, noisy[Len(noisy)]))
              /\ units' = Append(units, unit)
    /\ UNCHANGED << pc, arg, parsed, print_format, shape >>
    /\ UNCHANGED << layout_vars, batch_vars, scale_vars >>

\* format::to_print_format(&size)
PrintFormat ==
    /\ pc = "size"
    /\ print_format' = Some(format_to_print_format(unwrap(parsed).res.val[1]))
    /\ pc' = "formatted"
    /\ UNCHANGED << arg, parsed, lengths, units, cdpi, noisy, shape >>
    /\ UNCHANGED << layout_vars, batch_vars, scale_vars >>

\* arg.parse::<Borders>()
ParseBorders ==
    /\ pc = "arg"
    /\ LET res == Borders_from_str(arg)
       IN  /\ parsed' = Some([type |-> "Borders", res |-> res])
           /\ pc' = after_parse(res, "borders")
           /\ shape' = shape_of("Borders", res)
    /\ UNCHANGED << arg, lengths, units, cdpi, noisy, print_format >>
    /\ UNCHANGED << layout_vars, batch_vars, scale_vars >>

\* arg.parse::<Scale>()
ParseScale ==
    /\ pc = "arg"
    /\ LET res == Scale_from_str(arg)
       IN  /\ parsed' = Some([type |-> "Scale", res |-> res])
           /\ pc' = after_parse(res, "scale")
    /\ UNCHANGED << arg, lengths, units, cdpi, noisy, print_format, shape >>
    /\ UNCHANGED << layout_vars, batch_vars, scale_vars >>

\* arg.parse::<Color>()
ParseColor ==
    /\ pc = "arg"
    /\ LET res == Color_from_str(arg)
       IN  /\ parsed' = Some([type |-> "Color", res |-> res])
           /\ pc' = after_parse(res, "color")
    /\ UNCHANGED << arg, lengths, units, cdpi, noisy, print_format, shape >>
    /\ UNCHANGED << layout_vars, batch_vars, scale_vars >>

\* Size::new(w, h) on dimensions taken from the parsed Length
NewSize ==
    /\ pc = "length"
    /\ units = << >>
    /\ \E w, h \in {None, Some(lengths[1])} :
          LET res == Size_new(w, h)
          IN  /\ parsed' = Some([type |-> "Size::new", res |-> res, width |-> w, height |-> h])
              /\ pc' = after_parse(res, "newsize")
              /\ shape' = shape_of("Size", res)
    /\ lengths' = << >>
    /\ noisy' = << >>
    /\ UNCHANGED << arg, units, cdpi, print_format >>
    /\ UNCHANGED << layout_vars, batch_vars, scale_vars >>

\* rotate_90 of the value's type
rotate_90(type, v) ==
    CASE type = "Size" -> Size_rotate_90(v)
      [] type = "FixSize" -> FixSize_rotate_90(v)
      [] type = "Borders" -> Borders_rotate_90(v)

\* value.rotate_90()
Rotate90 ==
    /\ is_some(shape)
    /\ unwrap(shape).turns + 1 =< MaxTurns
    /\ shape' = Some([unwrap(shape) EXCEPT !.val = rotate_90(unwrap(shape).type, @),
                                           !.turns = @ + 1])
    /\ UNCHANGED << pc, arg, parsed, lengths, units, cdpi, noisy, print_format >>
    /\ UNCHANGED << layout_vars, batch_vars, scale_vars >>

\* borders.rotate_270()
Rotate270 ==
    /\ is_some(shape)
    /\ unwrap(shape).type = "Borders"
    /\ unwrap(shape).turns + 3 =< MaxTurns
    /\ shape' = Some([unwrap(shape) EXCEPT !.val = Borders_rotate_270(@), !.turns = @ + 3])
    /\ UNCHANGED << pc, arg, parsed, lengths, units, cdpi, noisy, print_format >>
    /\ UNCHANGED << layout_vars, batch_vars, scale_vars >>

\* The Sizes that size.to(unit, dpi) can return: each present dimension is
\* converted, an absent one stays absent.
Size_to(size, unit, dpi) ==
    LET dim(o) == IF is_some(o)
                  THEN {Some(r) : r \in ConvertOutcomes(unwrap(o), unit, dpi,
                                                        ~IsPow2(unwrap(o).d))}
                  ELSE {None}
    IN  {[width |-> w, height |-> h] : w \in dim(size.width), h \in dim(size.height)}

\* size.to(&unit, dpi) on a Size as it was parsed or built, rotated or not
ConvertSize ==
    /\ is_some(shape)
    /\ unwrap(shape).type = "Size"
    /\ ~unwrap(shape).converted
    /\ \E unit \in LengthUnits, dpi \in DpiValues :
          \E r \in Size_to(unwrap(shape).val, unit, dpi) :
             shape' = Some([type |-> "Size", val |-> r, base |-> r, turns |-> 0,
                            converted |-> TRUE])
    /\ UNCHANGED << pc, arg, parsed, lengths, units, cdpi, noisy, print_format >>
    /\ UNCHANGED << layout_vars, batch_vars, scale_vars >>

NextUnits ==
    \/ ParseLength \/ ParseSize \/ ParseFixSize \/ Convert \/ PrintFormat
    \/ NewSize \/ Rotate90 \/ Rotate270 \/ ConvertSize
    \/ ParseBorders \/ ParseScale \/ ParseColor

SpecUnits == InitUnits /\ [][NextUnits]_vars

TypeOKUnits ==
    /\ pc \in {"arg", "length", "size", "fixsize", "newsize", "borders", "scale", "color",
              "formatted", "error", "panic"}
    /\ arg \in Seq(Chars)
    /\ Len(lengths) = (IF pc = "length" THEN Len(units) + 1 ELSE 0)
    /\ Len(noisy) = Len(lengths)
    /\ \A i \in 1..Len(lengths) : lengths[i].d > 0 /\ lengths[i].n >= 0
    /\ \A i \in 1..Len(units) : lengths[i + 1].unit = units[i]


\* --------------------------------------------------------- the batch driver
\* main: every input file is handled by the closure of files.par_iter()
\* .for_each on a thread of the pool; the closures of different files
\* interleave freely.  What image::open, op.execute and save_image return
\* depends on the files' contents and is chosen freely.
MaxFiles == 2         \* a batch has up to MaxFiles input files

\* The last position of the character c in s, 0 when there is none.
LastIndex(s, c) ==
    LET at == {i \in 1..Len(s) : s[i] = c}
    IN  IF at = {} THEN 0 ELSE CHOOSE i \in at : \A j \in at : j =< i

\* Path::file_stem: the final component up to its last point, the whole
\* component when it has no point after its first character.
file_stem(path) ==
    LET name == SubSeq(path, LastIndex(path, "/") + 1, Len(path))
        dot == LastIndex(name, ".")
    IN  IF name = << >> \/ name = << ".", "." >> THEN None
        ELSE IF dot =< 1 THEN Some(name)
        ELSE Some(SubSeq(name, 1, dot - 1))

\* pattern.replace("*", name)
RECURSIVE replace(_, _)
replace(pattern, name) ==
    IF pattern = << >> THEN << >>
    ELSE (IF pattern[1] = "*" THEN name ELSE << pattern[1] >>) \o replace(Tail(pattern), name)

\* Variant: a failed operation is carried on with.
after_execute_substituting(res) == "executed"

\* Where the closure continues after op.execute: with the output, or in
\* exit_on_error.
after_execute(res) == IF res = "Ok" THEN "executed" ELSE "failing"

\* a/x.j, b/x.j and y.p match the input patterns; the output pattern is
\* o/*.j or o.j.
InputFiles ==
    { << "a", "/", "x", ".", "j" >>, << "b", "/", "x", ".", "j" >>, << "y", ".", "p" >> }
OutputPatterns == { << "o", "/", "*", ".", "j" >>, << "o", ".", "j" >> }

\* Lists of distinct files.
FileLists ==
    UNION {{f \in [1..n -> InputFiles] : \A i, j \in 1..n : f[i] = f[j] => i = j}
              : n \in 0..MaxFiles}

InitBatch ==
    /\ files \in FileLists
    /\ output \in OutputPatterns
    /\ workers = [i \in 1..Len(files) |-> [pc |-> "start", out_path |-> << >>,
                                           processed |-> "no"]]
    /\ writes = {}
    /\ exit_code = None
    /\ pc = "for_each"
    /\ self = ScenarioOptions
    /\ image = ScenarioPhoto
    /\ rotate = FALSE
    /\ width = 0
    /\ height = 0
    /\ result = None
    /\ error = None
    /\ arg = << >>
    /\ parsed = None
    /\ lengths = << >>
    /\ units = << >>
    /\ cdpi = None
    /\ noisy = << >>
    /\ print_format = None
    /\ shape = None
    /\ NoScaling

\* The closure of file i is at position at and the process is alive.
At(i, at) == pc = "for_each" /\ exit_code = None /\ workers[i].pc = at

\* The closure of file i moves on.
Step(i, w) ==
    /\ workers' = [workers EXCEPT ![i] = w]
    /\ UNCHANGED << pc, files, output, exit_code >>
    /\ UNCHANGED << layout_vars, unit_vars, scale_vars >>

\* let name = file.file_stem().exit(..); let out_path = cli.output.replace("*", &name)
OutPath ==
    \E i \in 1..Len(files) :
        /\ At(i, "start")
        /\ IF is_some(file_stem(files[i]))
           THEN Step(i, [workers[i] EXCEPT !.pc = "named",
                            !.out_path = replace(output, unwrap(file_stem(files[i])))])
           ELSE Step(i, [workers[i] EXCEPT !.pc = "failing"])
        /\ UNCHANGED writes

\* let input = image::open(file).exit(..)
Open ==
    \E i \in 1..Len(files) :
        /\ At(i, "named")
        /\ \E res \in {"Ok", "Err"} :
              Step(i, [workers[i] EXCEPT !.pc = IF res = "Ok" THEN "opened" ELSE "failing"])
        /\ UNCHANGED writes

\* let output = match op.execute(&input) { Ok(o) => o, Err(e) => exit_on_error(..) }
Execute ==
    \E i \in 1..Len(files) :
        /\ At(i, "opened")
        /\ \E res \in {"Ok", "Err"} :
              Step(i, [workers[i] EXCEPT !.pc = after_execute(res), !.processed = res])
        /\ UNCHANGED writes

\* ImageUtil::save_image(output, &out_path, quality) returns an error before
\* it opens the file, or starts to write out_path;
Save ==
    \E i \in 1..Len(files) :
        /\ At(i, "executed")
        /\ \/ Step(i, [workers[i] EXCEPT !.pc = "failing"]) /\ UNCHANGED writes
           \/ /\ Step(i, [workers[i] EXCEPT !.pc = "saving"])
              /\ writes' = writes \cup {<< i, workers[i].out_path >>}

\* and, having written, returns Ok or an error.
Saved ==
    \E i \in 1..Len(files) :
        /\ At(i, "saving")
        /\ \E res \in {"Ok", "Err"} :
              Step(i, [workers[i] EXCEPT !.pc = IF res = "Ok" THEN "saved" ELSE "failing"])
        /\ UNCHANGED writes

\* exit_on_error, ErrorAbort::exit: exit(1)
Exit ==
    \E i \in 1..Len(files) :
        /\ At(i, "failing")
        /\ exit_code' = Some(1)
        /\ pc' = "exited"
        /\ UNCHANGED << files, output, workers, writes >>
        /\ UNCHANGED << layout_vars, unit_vars, scale_vars >>

\* for_each has returned: println!("Success! ..") and main returns.
Success ==
    /\ pc = "for_each"
    /\ exit_code = None
    /\ \A i \in 1..Len(files) : workers[i].pc = "saved"
    /\ pc' = "success"
    /\ exit_code' = Some(0)
    /\ UNCHANGED << files, output, workers, writes >>
    /\ UNCHANGED << layout_vars, unit_vars, scale_vars >>

NextBatch ==
    \/ OutPath
    \/ Open
    \/ Execute
    \/ Save
    \/ Saved
    \/ Exit
    \/ Success

\* The threads of the pool and the main thread keep running.
SpecBatch == InitBatch /\ [][NextBatch]_vars /\ WF_vars(NextBatch)

TypeOKBatch ==
    /\ pc \in {"for_each", "exited", "success"}
    /\ exit_code \in {None, Some(0), Some(1)}
    /\ \A i \in 1..Len(files) :
          workers[i].pc \in {"start", "named", "opened", "executed", "saving", "saved", "failing"}
    /\ \A w \in writes : w[1] \in 1..Len(files)

\* ------------------------------------------------------- incremental scaling
\* ImageUtil::scale_image on an image of image.width x image.height pixels
\* with the target width x height.  An image is its size; the sizes of the
\* model are far below u32::MAX / 3, so 3 * width does not overflow.
MaxSource == 12       \* the source image has up to MaxSource pixels a side
MaxTarget == 2        \* the target has up to MaxTarget pixels a side

ScaleModes == {"Keep", "Stretch", "Crop", "Fill"}

\* The size DynamicImage::resize gives an image of w x h pixels for the
\* bounds nwidth x nheight: the largest size of the image's aspect ratio
\* within the bounds, at least one pixel a side.  The image crate computes the
\* free side by integer division in some versions and by rounding in others.
Roundings == {"floor", "round"}
resize(w, h, nwidth, nheight, rounding) ==
    LET q(a, b) == IF rounding = "floor" THEN a \div b ELSE RoundQ(a, b)
        at_least_1(x) == IF x < 1 THEN 1 ELSE x
    IN  IF nwidth * h =< w * nheight
        THEN [width |-> nwidth, height |-> at_least_1(q(h * nwidth, w))]
        ELSE [width |-> at_least_1(q(w * nheight, h)), height |-> nheight]

\* scale_image_simple: the size of its result.  resize_exact gives the target
\* size, resize_to_fill crops to it, and Fill pastes the resized image on a
\* canvas of the target size.
scale_image_simple(i, w, h, m, rounding) ==
    CASE m = "Keep" -> resize(i.width, i.height, w, h, rounding)
      [] m = "Stretch" -> [width |-> w, height |-> h]
      [] m = "Crop" -> [width |-> w, height |-> h]
      [] m = "Fill" -> [width |-> w, height |-> h]

\* scale_to_half: image.width() / 2 by image.height() / 2
scale_to_half(i) == [width |-> i.width \div 2, height |-> i.height \div 2]

\* Variant: halving goes on while the image is larger than the target.
halving_applies_above_target(i, w, h) == i.width > w /\ i.height > h

\* image.width() > 3 * width && image.height() > 3 * height
halving_applies(i, w, h) == i.width > 3 * w /\ i.height > 3 * h

\* The tests scale_image and scale_image_inc (256x256 to 32x32), and a narrow
\* image of odd sides.
ScaleScenarios ==
    { << [width |-> 256, height |-> 256], 32, 32 >>, << [width |-> 7, height |-> 99], 2, 30 >> }

InitScale ==
    /\ \/ /\ image \in [width : 1..MaxSource, height : 1..MaxSource]
          /\ width \in 1..MaxTarget
          /\ height \in 1..MaxTarget
       \/ \E s \in ScaleScenarios : image = s[1] /\ width = s[2] /\ height = s[3]
    /\ mode \in ScaleModes
    /\ incremental \in BOOLEAN
    /\ img = None
    /\ scaled = None
    /\ pc = "scale_image"
    /\ self = ScenarioOptions
    /\ rotate = FALSE
    /\ result = None
    /\ error = None
    /\ arg = << >>
    /\ parsed = None
    /\ lengths = << >>
    /\ units = << >>
    /\ cdpi = None
    /\ noisy = << >>
    /\ print_format = None
    /\ shape = None
    /\ NoBatch

\* The image the next step works on: image, or img once it was halved.
Current == IF is_some(img) THEN unwrap(img) ELSE image

\* img = Self::scale_to_half(..)?, first under the if, then in the while loop
ScaleToHalf ==
    /\ \/ pc = "scale_image" /\ incremental /\ halving_applies(image, width, height)
       \/ pc = "while" /\ halving_applies(unwrap(img), width, height)
    /\ img' = Some(scale_to_half(Current))
    /\ pc' = "while"
    /\ UNCHANGED << image, width, height, mode, incremental, scaled >>
    /\ UNCHANGED << self, rotate, result, error, unit_vars, batch_vars >>

\* Self::scale_image_simple(..) on img after the loop, or on image
ScaleImageSimple ==
    /\ \/ pc = "scale_image" /\ ~(incremental /\ halving_applies(image, width, height))
       \/ pc = "while" /\ ~halving_applies(unwrap(img), width, height)
    /\ \E rounding \in Roundings :
          scaled' = Some(scale_image_simple(Current, width, height, mode, rounding))
    /\ pc' = "scaled"
    /\ UNCHANGED << image, width, height, mode, incremental, img >>
    /\ UNCHANGED << self, rotate, result, error, unit_vars, batch_vars >>

NextScale == ScaleToHalf \/ ScaleImageSimple

\* scale_image runs on its thread until it returns.
SpecScale == InitScale /\ [][NextScale]_vars /\ WF_vars(NextScale)

TypeOKScale ==
    /\ pc \in {"scale_image", "while", "scaled"}
    /\ is_some(img) => incremental
    /\ is_some(scaled) <=> pc = "scaled"

\* ------------------------------------------------------------- properties
\* The names of the layout options that are supplied.
Supplied(s) ==
    {o \in {"image-size", "framed-size", "padding", "margins"} :
        \/ o = "image-size" /\ s.image_size # None
        \/ o = "framed-size" /\ s.framed_size # None
        \/ o = "padding" /\ s.padding # None
        \/ o = "margins" /\ s.margins # None}

\* The pixel format before the swap.
FormatW == value(format_px(self).width)
FormatH == value(format_px(self).height)

\* The maximal photo rectangle of calc_sizes (defined where calc_sizes returns).
MaxImageRect ==
    max_image(self, max_framed(self, width, height, rotate, Dpi(self)), rotate, Dpi(self))

\* The supplied options in pixels.
SuppliedPadding == Borders_to_px(unwrap(self.padding), Dpi(self))
SuppliedFramed == FixSize_to_px(unwrap(self.framed_size), Dpi(self))
SuppliedImage == FixSize_to_px(unwrap(self.image_size), Dpi(self))

Abs(x) == IF x >= 0 THEN x ELSE -x

\* C1: once check has run, an option set whose size is not 2, or the set
\* {framed-size, margins}, has made process_image return the error with no
\* rotation decided and no layout computed; {image-size, padding} is accepted.
C1_CheckRejectsBadArity ==
    pc # "start" =>
        /\ (Cardinality(Supplied(self)) # 2 \/ Supplied(self) = {"framed-size", "margins"})
              => /\ pc = "error"
                 /\ error \in {Some(ErrCount), Some(ErrCombination)}
                 /\ result = None /\ width = 0 /\ height = 0 /\ rotate = FALSE
        /\ Supplied(self) = {"image-size", "padding"} => pc # "error" /\ error = None

C1_Witness ==
    pc = "error" /\ Supplied(self) = {"framed-size", "margins"}

\* C2 (as claimed): validation succeeds only with exactly one of
\* {image-size, framed-size} and exactly one of {padding, margins}.
C2_OneFromEachBracket ==
    pc \notin {"start", "error"} =>
        /\ Cardinality(Supplied(self) \cap {"image-size", "framed-size"}) = 1
        /\ Cardinality(Supplied(self) \cap {"padding", "margins"}) = 1

\* C2 (amended): validation succeeds exactly when two of the four options are
\* supplied and they are not {framed-size, margins}; the same-bracket pairs
\* {image-size, framed-size} and {padding, margins} pass.
C2_AnyTwoButForbiddenPair ==
    pc # "start" =>
        (pc # "error" <=>
            Supplied(self) \in {{"image-size", "framed-size"}, {"padding", "margins"},
                                {"image-size", "padding"}, {"image-size", "margins"},
                                {"framed-size", "padding"}})

C2_Witness ==
    pc = "done" /\ Supplied(self) = {"image-size", "framed-size"}

\* C3 (as claimed): for every option set that passes check, calc_sizes
\* returns a layout and never panics.
C3_CalcSizesNeverPanics ==
    pc # "panic"

\* C4: in every returned layout the framed size is the photo size plus the
\* padding, exactly, on each axis.
C4_FramedIsPhotoPlusPadding ==
    is_some(result) =>
        LET r == unwrap(result)
        IN  /\ value(r.framed.width)
                 = value(r.image.width) + value(r.padding.left) + value(r.padding.right)
            /\ value(r.framed.height)
                 = value(r.image.height) + value(r.padding.top) + value(r.padding.bottom)

C4_Witness ==
    /\ is_some(result)
    /\ value(unwrap(result).padding.left) # value(unwrap(result).padding.right)
    /\ value(unwrap(result).padding.top) # value(unwrap(result).padding.bottom)

\* C5: in every returned layout the margins plus the framed size reproduce
\* the (possibly swapped) canvas within one pixel on each axis.
C5_MarginsPlusFramedIsCanvas ==
    is_some(result) =>
        LET r == unwrap(result)
        IN  /\ Abs(width - (value(r.margins.left) + value(r.framed.width)
                            + value(r.margins.right))) =< 1
            /\ Abs(height - (value(r.margins.top) + value(r.framed.height)
                             + value(r.margins.bottom))) =< 1

C5_Witness ==
    /\ is_some(result)
    /\ is_some(self.margins)
    /\ unwrap(self.margins).left # unwrap(self.margins).right
    /\ Abs(width - (value(unwrap(result).margins.left) + value(unwrap(result).framed.width)
                    + value(unwrap(result).margins.right))) = 1


\* The photo is relatively wider / taller than the maximal photo rectangle
\* (compared as exact ratios, for a rectangle with positive sides).
PhotoWider(W, H) == image.width * H > W * image.height
PhotoTaller(W, H) == image.width * H < W * image.height

\* C6 (as claimed): when the photo's aspect ratio differs from that of the
\* maximal photo rectangle, the resolved photo fits inside the rectangle and
\* equals it in exactly one dimension (width when wider, height when taller).
C6_TouchesExactlyOneAxis ==
    is_some(result) =>
        LET r == unwrap(result)
            w == value(r.image.width)
            h == value(r.image.height)
            W == value(MaxImageRect.width)
            H == value(MaxImageRect.height)
        IN  (W > 0 /\ H > 0 /\ (PhotoWider(W, H) \/ PhotoTaller(W, H))) =>
                /\ w =< W
                /\ h =< H
                /\ PhotoWider(W, H) => (w = W /\ h # H)
                /\ PhotoTaller(W, H) => (h = H /\ w # W)

\* C6 (amended): for a maximal photo rectangle with positive sides and a
\* photo of a different aspect ratio, the resolved photo is no larger than
\* the rectangle in width and in height and equals it in width when the
\* photo is relatively wider, in height when it is relatively taller; the
\* other dimension is the proportional one rounded to a whole pixel, which
\* may also reach the rectangle.
C6_ContainFit ==
    is_some(result) =>
        LET r == unwrap(result)
            w == value(r.image.width)
            h == value(r.image.height)
            W == value(MaxImageRect.width)
            H == value(MaxImageRect.height)
        IN  (W > 0 /\ H > 0 /\ (PhotoWider(W, H) \/ PhotoTaller(W, H))) =>
                /\ w =< W
                /\ h =< H
                /\ PhotoWider(W, H) =>
                      (w = W /\ Abs(2 * (h * image.width - W * image.height)) =< image.width)
                /\ PhotoTaller(W, H) =>
                      (h = H /\ Abs(2 * (w * image.height - H * image.width)) =< image.height)

C6_Witness ==
    /\ is_some(result)
    /\ LET W == value(MaxImageRect.width)
           H == value(MaxImageRect.height)
       IN  /\ W > 0 /\ H > 0 /\ PhotoWider(W, H)
           /\ value(unwrap(result).image.width) = W
           /\ value(unwrap(result).image.height) < H

\* C7: once the rotation is decided, rotate holds iff no-rotation is not set
\* and the photo's and the format's portrait flags (height > width) differ;
\* the canvas is the format swapped iff rotate, and never swapped under
\* no-rotation.
C7_RotationFromOrientations ==
    pc \in {"rotated", "done", "panic"} =>
        LET differ == (image.height > image.width) # (FormatH > FormatW)
        IN  /\ rotate <=> (~self.no_rotation /\ differ)
            /\ rotate => (width = FormatH /\ height = FormatW)
            /\ ~rotate => (width = FormatW /\ height = FormatH)
            /\ self.no_rotation => (width = FormatW /\ height = FormatH)

C7_Witness ==
    /\ pc = "done" /\ rotate /\ width = FormatH /\ height = FormatW
    /\ width # height /\ image.height > image.width

\* C8 (as claimed): supplied padding is used rotation-adjusted (its sides
\* permuted by a quarter turn) when rotation is active, unchanged otherwise.
C8_PaddingRotationAdjusted ==
    (is_some(result) /\ is_some(self.padding)) =>
        IF rotate
        THEN unwrap(result).padding \in {Borders_rotate_90(SuppliedPadding),
                                         Borders_rotate_270(SuppliedPadding)}
        ELSE unwrap(result).padding = SuppliedPadding

\* C9 (as claimed): with framed-size supplied, the final framed size does not
\* exceed it (swapped if rotation is active) in width or in height.
C9_FramedWithinFramedSize ==
    (is_some(result) /\ is_some(self.framed_size)) =>
        LET limit == IF rotate THEN FixSize_rotate_90(SuppliedFramed) ELSE SuppliedFramed
        IN  /\ value(unwrap(result).framed.width) =< value(limit.width)
            /\ value(unwrap(result).framed.height) =< value(limit.height)

\* C10 (as claimed): with image-size supplied, the final photo size does not
\* exceed it (swapped if rotation is active) in width or in height.
C10_PhotoWithinImageSize ==
    (is_some(result) /\ is_some(self.image_size)) =>
        LET limit == IF rotate THEN FixSize_rotate_90(SuppliedImage) ELSE SuppliedImage
        IN  /\ value(unwrap(result).image.width) =< value(limit.width)
            /\ value(unwrap(result).image.height) =< value(limit.height)


\* The supplied margins in pixels.
SuppliedMargins == Borders_to_px(unwrap(self.margins), Dpi(self))

\* C11 (as claimed): whenever margins are supplied and calc_sizes returns a
\* layout, each resolved margin (top, right, bottom, left) is at least the
\* corresponding supplied margin in pixels.
C11_MarginsAreMinimum ==
    (is_some(result) /\ is_some(self.margins)) =>
        LET r == unwrap(result)
        IN  /\ value(r.margins.top) >= value(SuppliedMargins.top)
            /\ value(r.margins.right) >= value(SuppliedMargins.right)
            /\ value(r.margins.bottom) >= value(SuppliedMargins.bottom)
            /\ value(r.margins.left) >= value(SuppliedMargins.left)


\* C12: for the 4000x3000 photo with format 15cm/10cm at 300 dpi, image-size
\* 1200px/800px and padding 20px, the format resolves to 6in/4in, the canvas
\* is 1800x1200 pixels without rotation, the photo 1067x800 and the framed
\* size 1107x840; the run neither fails nor panics.
C12_ScenarioSizes ==
    (self = ScenarioOptions /\ image = ScenarioPhoto) =>
        /\ to_print_format(self.format) = FixSize(Inch(6, 1), Inch(4, 1))
        /\ pc \notin {"error", "panic"}
        /\ pc \in {"rotated", "done"} => (width = 1800 /\ height = 1200 /\ ~rotate)
        /\ pc = "done" =>
              /\ unwrap(result).image = FixSize_px(1067, 800)
              /\ unwrap(result).framed = FixSize_px(1107, 840)

C12_Witness ==
    /\ self = ScenarioOptions /\ image = ScenarioPhoto /\ pc = "done"
    /\ unwrap(result).framed = FixSize_px(1107, 840)


\* C13 (as claimed): in the scenario, with canvas 1800x1200, framed size
\* 1107x840 and no margins supplied, the resolved margins are 347 on the left
\* and right (346.5 rounded) and 180 on the top and bottom.
C13_ScenarioMarginsRounded ==
    (self = ScenarioOptions /\ image = ScenarioPhoto /\ pc = "done") =>
        unwrap(result).margins = Borders_px(180, 347, 180, 347)

\* C13 (amended): in the scenario the resolved margins are symmetric, 346 on
\* the left and right ((1800 - 1107) / 2 = 346.5 truncated by the integer
\* division) and 180 on the top and bottom.
C13_ScenarioMarginsTruncated ==
    (self = ScenarioOptions /\ image = ScenarioPhoto /\ pc = "done") =>
        /\ width = 1800 /\ height = 1200
        /\ unwrap(result).framed = FixSize_px(1107, 840)
        /\ unwrap(result).margins = Borders_px(180, 346, 180, 346)

C13_Witness ==
    /\ self = ScenarioOptions /\ image = ScenarioPhoto /\ pc = "done"
    /\ self.margins = None
    /\ value(unwrap(result).margins.left) = 346


\* Apart from the 4000x3000 scenario (whose quotient 1066.67 is no tie) and
\* the margin scenario (whose quotient 22 * 1/2 is exact), the operands of the
\* aspect fit stay in the range where the f64 evaluation of the code and the
\* exact evaluation of RoundQ were compared.
FitOperandsSmall ==
    (is_some(result) /\ self \notin {ScenarioOptions, MarginScenarioOptions}) =>
        /\ Abs(value(MaxImageRect.width)) =< 8 /\ Abs(value(MaxImageRect.height)) =< 8
        /\ image.width =< 4 /\ image.height =< 4


\* C25: when margins are supplied, the resolved margins keep the requested
\* skew: resolved right - left differs from the supplied right - left by at
\* most one pixel and equals it when the supplied difference is even, and
\* likewise top - bottom; the two margins of each axis are centred on
\* (canvas - framed) / 2 in integer division.
C25_MarginSkewKept ==
    (pc = "done" /\ is_some(self.margins)) =>
        LET r == unwrap(result)
            m == r.margins
            hor == TruncDiv(width - value(r.framed.width), 2)
            ver == TruncDiv(height - value(r.framed.height), 2)
            skew_hor == value(SuppliedMargins.right) - value(SuppliedMargins.left)
            skew_ver == value(SuppliedMargins.top) - value(SuppliedMargins.bottom)
            res_hor == value(m.right) - value(m.left)
            res_ver == value(m.top) - value(m.bottom)
        IN  /\ Abs(res_hor - skew_hor) =< 1
            /\ Abs(res_ver - skew_ver) =< 1
            /\ skew_hor % 2 = 0 => res_hor = skew_hor
            /\ skew_ver % 2 = 0 => res_ver = skew_ver
            /\ value(m.right) - hor = hor - value(m.left)
            /\ value(m.top) - ver = ver - value(m.bottom)

C25_Witness ==
    /\ self = MarginScenarioOptions /\ image = MarginScenarioPhoto /\ pc = "done"
    /\ unwrap(result).framed = FixSize_px(26, 15)
    /\ unwrap(result).margins = Borders_px(6, 10, 8, 4)

\* ------------------------------------------------ properties of the unit types
\* The Size that was parsed and the result to_print_format gave for it.
ParsedSize == unwrap(parsed).res.val[1]
PrintFormatOut == unwrap(print_format)

\* C14: to_print_format on a size with both dimensions returns the table's
\* replacement when the size's string form "W/H" is a key of the table
\* (15cm/10cm gives 6in/4in) and the size itself when it is not; a size with a
\* missing dimension yields an error.
C14_PrintFormatLookup ==
    pc = "formatted" =>
        LET hits == {row \in create_formats : row[1] = Size_to_string(ParsedSize)}
        IN  /\ IF ParsedSize.width = None \/ ParsedSize.height = None
               THEN is_err(PrintFormatOut)
               ELSE IF hits # {}
               THEN /\ is_ok(PrintFormatOut)
                    /\ \A row \in hits : Size_to_string(PrintFormatOut.val[1]) = row[2]
               ELSE PrintFormatOut = OkOf(ParsedSize)
            /\ arg = << "1", "5", "c", "m", "/", "1", "0", "c", "m" >> =>
                  PrintFormatOut = OkOf([width |-> Some(Inch(6, 1)), height |-> Some(Inch(4, 1))])

C14_Witness ==
    /\ pc = "formatted"
    /\ arg = << "1", "5", "c", "m", "/", "1", "0", "c", "m" >>
    /\ PrintFormatOut = OkOf([width |-> Some(Inch(6, 1)), height |-> Some(Inch(4, 1))])

\* C15 (as claimed): a print format written with floating point numbers,
\* 15.0cm/10.0cm, is used as the exact size given and is not replaced by the
\* inch format of the table.
C15_FloatFormatKeptExact ==
    (pc = "formatted" /\ arg = << "1", "5", ".", "0", "c", "m", "/", "1", "0", ".", "0", "c", "m" >>) =>
        PrintFormatOut = OkOf([width |-> Some(Cm(15, 1)), height |-> Some(Cm(10, 1))])

\* C16 (as claimed): every Length whose unit is Px holds an integral value,
\* whether it was parsed (with the px suffix or with none, fractional
\* literals included) or obtained by a conversion to Px.
C16_PxIsIntegral ==
    \A i \in 1..Len(lengths) : lengths[i].unit = "px" => lengths[i].d = 1

\* C17 (as claimed): converting a Length, parsed ones included, to its own
\* unit returns a Length equal to it exactly, whatever the dpi.
C17_IdentityConversionExact ==
    \A i \in 1..Len(units) : units[i] = lengths[i].unit => lengths[i + 1] = lengths[i]

\* Half a pixel expressed in a unit, as << numerator, denominator >>.
HalfPixel(unit, dpi) ==
    CASE unit = "px" -> << 1, 2 >>
      [] unit = "in" -> << 1, 2 * dpi >>
      [] unit = "cm" -> << 127, 100 * dpi >>

\* Lengths x and y of one unit differ by at most the rational tol.
Within(x, y, tol) ==
    LET g == GCD(x.d, y.d)
        num == x.n * (y.d \div g) - y.n * (x.d \div g)
        den == (x.d \div g) * y.d
        ratio == MulQ(IF num >= 0 THEN num ELSE -num, den, tol[2], tol[1])
    IN  ratio[1] =< ratio[2]

\* What converting lengths[i] directly to the unit can return.
Direct(i, unit) == ConvertOutcomes(lengths[i], unit, unwrap(cdpi), noisy[i])

\* The values of the unit_conversion test.
TestLengths == {Cm(254, 1), Inch(100, 1), Px(30000)}
TestLengthsExact ==
    (lengths # << >> /\ lengths[1] \in TestLengths /\ cdpi = Some(300)) =>
        \A i \in 1..Len(lengths) : lengths[i] \in TestLengths

\* C18 (as claimed): converting L to U1 and then to U2 equals converting L
\* directly to U2 up to half a pixel expressed in U2; at 300 dpi 254cm, 100in
\* and 30000px convert into one another exactly.
C18_RoundTripWithinHalfPixel ==
    /\ \A i \in 1..(Len(lengths) - 2) : \A y \in Direct(i, units[i + 1]) :
          Within(lengths[i + 2], y, HalfPixel(units[i + 1], unwrap(cdpi)))
    /\ TestLengthsExact

\* C18 (amended): converting L to U1 and then to U2 differs from converting L
\* directly to U2 by at most one whole pixel when U2 is Px (at a .5 tie the
\* two roundings can go apart) and by at most half a pixel expressed in U2
\* when U2 is Cm or Inch; at 300 dpi 254cm, 100in and 30000px convert into one
\* another exactly.
C18_RoundTripWithinOnePixel ==
    /\ \A i \in 1..(Len(lengths) - 2) : \A y \in Direct(i, units[i + 1]) :
          Within(lengths[i + 2], y,
                 IF units[i + 1] = "px" THEN << 1, 1 >>
                 ELSE HalfPixel(units[i + 1], unwrap(cdpi)))
    /\ TestLengthsExact

C18_Witness ==
    /\ arg = << "0", ".", "5", "i", "n" >>
    /\ cdpi = Some(1)
    /\ units = << "cm", "px" >>
    /\ lengths = << Inch(1, 2), Cm(127, 100), Px(0) >>
    /\ Direct(1, "px") = {Px(1)}

\* The result of the parse that has run.
ParseRes == unwrap(parsed).res

\* C19 (as claimed): parsing a Length is total: for every string, the empty
\* and the one-character ones included, the parser returns a Length or a
\* parse error and never crashes; a numeric literal with no alphabetic suffix
\* yields unit Px, a recognised two-letter suffix after a numeric literal
\* yields that unit, and anything else yields a parse error.
C19_ParseLengthTotal ==
    (parsed # None /\ unwrap(parsed).type = "Length") =>
        LET n == Len(arg)
            suffix == IF n >= 2 THEN LengthUnit_from_str(SubSeq(arg, n - 1, n))
                      ELSE Err("ParseEnumError")
            prefix == IF n >= 2 THEN f32_from_str(SubSeq(arg, 1, n - 2))
                      ELSE Err("ParseFloatError")
        IN  /\ ParseRes.tag \in {"Ok", "Err"}
            /\ IF is_ok(f32_from_str(arg))
               THEN is_ok(ParseRes) /\ ParseRes.val[1].unit = "px"
               ELSE IF is_ok(suffix) /\ is_ok(prefix)
               THEN is_ok(ParseRes) /\ ParseRes.val[1].unit = suffix.val[1]
               ELSE is_err(ParseRes)

\* C20 (as claimed): parsing a FixSize from a two-component string in which a
\* component is "." returns an error value to the caller, while the same
\* string parses as a Size with that dimension absent when its other
\* component is a length.
C20_FixSizeRejectsPlaceholder ==
    (parsed # None /\ unwrap(parsed).type = "FixSize" /\ Len(Split(arg)) = 2
       /\ << "." >> \in {Split(arg)[1], Split(arg)[2]}) =>
        LET w == Split(arg)[1]
            h == Split(arg)[2]
            size == Size_from_str(arg)
        IN  /\ is_err(ParseRes)
            /\ (w = << "." >> /\ is_ok(Length_from_str(h))) =>
                  is_ok(size) /\ size.val[1].width = None /\ is_some(size.val[1].height)
            /\ (h = << "." >> /\ is_ok(Length_from_str(w))) =>
                  is_ok(size) /\ size.val[1].height = None /\ is_some(size.val[1].width)

\* The number of dimensions a Size has.
Present(size) ==
    (IF is_some(size.width) THEN 1 ELSE 0) + (IF is_some(size.height) THEN 1 ELSE 0)

\* C21: every Size that exists has at least one of width and height:
\* Size::new and the parsing of a Size fail when both are absent ("./."),
\* parsing fails when the number of slash-separated components is not 2, and
\* to and rotate_90 applied to a Size give a Size with the same number of
\* dimensions.
C21_SizeKeepsADimension ==
    /\ (parsed # None /\ unwrap(parsed).type = "Size") =>
          /\ Len(Split(arg)) # 2 => is_err(ParseRes)
          /\ arg = << ".", "/", "." >> => is_err(ParseRes)
          /\ is_ok(ParseRes) => Present(ParseRes.val[1]) >= 1
    /\ (parsed # None /\ unwrap(parsed).type = "Size::new") =>
          /\ (unwrap(parsed).width = None /\ unwrap(parsed).height = None) => is_err(ParseRes)
          /\ is_ok(ParseRes) => Present(ParseRes.val[1]) >= 1
    /\ (is_some(shape) /\ unwrap(shape).type = "Size") =>
          /\ Present(unwrap(shape).val) >= 1
          /\ Present(unwrap(shape).val) = Present(ParseRes.val[1])

C21_Witness ==
    /\ arg = << "1", "0", "c", "m", "/", "." >>
    /\ is_some(shape)
    /\ unwrap(shape).converted
    /\ unwrap(shape).turns = 1
    /\ unwrap(shape).val = [width |-> Some(Px(1181)), height |-> None]

\* C22: Borders parsing replicates components by count: one component sets
\* all four sides, two set top = bottom = first and right = left = second,
\* four are top, right, bottom, left in that order, and any other number of
\* slash-separated components is a structured error; Display prints
\* top/right/bottom/left, so parsing the displayed string gives back the same
\* Borders.
C22_BordersByCount ==
    /\ (parsed # None /\ unwrap(parsed).type = "Borders") =>
          LET parts == Split(arg)
              len(i) == Length_from_str(parts[i]).val[1]
          IN  /\ Len(parts) \notin {1, 2, 4} => ParseRes = Err("ParseStructError")
              /\ (Len(parts) \in {1, 2, 4} /\ is_ok(ParseRes)) =>
                    ParseRes.val[1] =
                        CASE Len(parts) = 1 ->
                                [top |-> len(1), right |-> len(1), bottom |-> len(1), left |-> len(1)]
                          [] Len(parts) = 2 ->
                                [top |-> len(1), right |-> len(2), bottom |-> len(1), left |-> len(2)]
                          [] Len(parts) = 4 ->
                                [top |-> len(1), right |-> len(2), bottom |-> len(3), left |-> len(4)]
              /\ (Len(parts) \in {1, 2, 4} /\ \A i \in 1..Len(parts) : is_ok(Length_from_str(parts[i])))
                    => is_ok(ParseRes)
    /\ (is_some(shape) /\ unwrap(shape).type = "Borders") =>
          LET b == unwrap(shape).val
              str == Borders_to_string(b)
          IN  /\ Len(Split(str)) = 4
              /\ Split(str) = << Length_to_string(b.top), Length_to_string(b.right),
                                 Length_to_string(b.bottom), Length_to_string(b.left) >>
              /\ Borders_from_str(str) = OkOf(b)

C22_Witness ==
    /\ pc = "borders"
    /\ arg = << "1", "c", "m", "/", "2", "c", "m" >>
    /\ unwrap(shape).turns = 0
    /\ unwrap(shape).val = Borders_each(Cm(1, 1), Cm(2, 1), Cm(1, 1), Cm(2, 1))
    /\ Borders_to_string(unwrap(shape).val)
          = << "1", "c", "m", "/", "2", "c", "m", "/", "1", "c", "m", "/", "2", "c", "m" >>

\* rotate_90 applied k times.
RECURSIVE Turned(_, _, _)
Turned(type, v, k) == IF k = 0 THEN v ELSE rotate_90(type, Turned(type, v, k - 1))

\* C23: four applications of rotate_90 to a Size, FixSize or Borders return
\* the original value, and for Size and FixSize two already do; rotate_90 maps
\* the Borders (top, right, bottom, left) to (left, top, right, bottom);
\* rotate_270 equals three applications of rotate_90 and is the inverse of
\* rotate_90.
C23_RotationInvolution ==
    is_some(shape) =>
        LET s == unwrap(shape)
        IN  /\ s.val = Turned(s.type, s.base, s.turns)
            /\ s.turns % 4 = 0 => s.val = s.base
            /\ (s.type \in {"Size", "FixSize"} /\ s.turns % 2 = 0) => s.val = s.base
            /\ (s.type = "Borders" /\ s.turns = 1) =>
                  s.val = [top |-> s.base.left, right |-> s.base.top,
                           bottom |-> s.base.right, left |-> s.base.bottom]
            /\ s.type = "Borders" =>
                  /\ Borders_rotate_270(s.val) = Turned("Borders", s.val, 3)
                  /\ Borders_rotate_270(Borders_rotate_90(s.val)) = s.val
                  /\ Borders_rotate_90(Borders_rotate_270(s.val)) = s.val

C23_Witness ==
    /\ arg = << "1", "c", "m", "/", "2", "c", "m", "/", "3", "c", "m", "/", "4", "c", "m" >>
    /\ is_some(shape)
    /\ unwrap(shape).turns = 4
    /\ unwrap(shape).val = Borders_each(Cm(1, 1), Cm(2, 1), Cm(3, 1), Cm(4, 1))

\* A component of a Scale argument: whether it is a percentage, the number
\* written in it, and whether the number v is the one it stands for.
IsPercent(part) == part # << >> /\ part[Len(part)] = "%"
NumberIn(part) ==
    f32_from_str(IF IsPercent(part) THEN SubSeq(part, 1, Len(part) - 1) ELSE part)
StandsFor(part, v) ==
    LET x == NumberIn(part).val[1]
    IN  IF IsPercent(part) THEN 100 * v[1] * x[2] = x[1] * v[2]
        ELSE v[1] * x[2] = x[1] * v[2]

\* C24: a Scale component ending in % parses to its number times 0.01 and any
\* other to its number; a single value, or a value with a "." placeholder on
\* the other side, gives that value as both width and height; ".", "./." and
\* more than two components are errors.
C24_ScaleParsing ==
    (parsed # None /\ unwrap(parsed).type = "Scale") =>
        LET parts == Split(arg)
            given(i) == i =< Len(parts) /\ parts[i] # << "." >>
        IN  /\ Len(parts) > 2 => is_err(ParseRes)
            /\ arg \in {<< "." >>, << ".", "/", "." >>} => is_err(ParseRes)
            /\ ParseRes.tag \in {"Ok", "Err"}
            /\ is_ok(ParseRes) <=>
                  /\ Len(parts) =< 2
                  /\ given(1) \/ given(2)
                  /\ \A i \in 1..2 : given(i) => is_ok(NumberIn(parts[i]))
            /\ is_ok(ParseRes) =>
                  LET scale == ParseRes.val[1]
                  IN  /\ given(1) => StandsFor(parts[1], scale.width)
                      /\ given(2) => StandsFor(parts[2], scale.height)
                      /\ ~given(1) => scale.width = scale.height
                      /\ ~given(2) => scale.height = scale.width

C24_Witness ==
    /\ pc = "scale"
    /\ arg = << ".", "/", "2", "0", "%" >>
    /\ ParseRes = OkOf([width |-> << 1, 5 >>, height |-> << 1, 5 >>])

\* The string "H/W" of a table string "W/H".
Swapped(str) == Split(str)[2] \o << "/" >> \o Split(str)[1]

\* C26: resolving a named format commutes with rotation: for a size with both
\* dimensions, to_print_format of the size turned by 90 degrees is the result
\* for the size turned likewise; every table entry W/H -> w/h has the entry
\* H/W -> h/w.
C26_PrintFormatCommutesWithRotation ==
    (pc = "formatted" /\ is_ok(PrintFormatOut)) =>
          /\ \A row \in create_formats :
                << Swapped(row[1]), Swapped(row[2]) >> \in create_formats
          /\ format_to_print_format(Size_rotate_90(ParsedSize))
                = OkOf(Size_rotate_90(PrintFormatOut.val[1]))
          /\ ~unwrap(shape).converted =>
                format_to_print_format(unwrap(shape).val)
                   = OkOf(Turned("Size", PrintFormatOut.val[1], unwrap(shape).turns))

C26_Witness ==
    /\ pc = "formatted"
    /\ arg = << "2", "1", "c", "m", "/", "1", "5", "c", "m" >>
    /\ PrintFormatOut = OkOf([width |-> Some(Inch(17, 2)), height |-> Some(Inch(6, 1))])
    /\ unwrap(shape).turns = 1
    /\ ~unwrap(shape).converted
    /\ format_to_print_format(unwrap(shape).val)
          = OkOf([width |-> Some(Inch(6, 1)), height |-> Some(Inch(17, 2))])

\* C29 (as claimed): when the string is not a color name, Color parsing
\* accepts 1, 3 or 4 slash-separated elements: one element v gives
\* (v, v, v, 255), three give (r, g, b, 255), four give (r, g, b, a); any
\* other count is a parse error; no input makes the parser crash.
C29_ColorParsing ==
    (parsed # None /\ unwrap(parsed).type = "Color" /\ \A row \in COLORS : row[1] # arg) =>
        LET parts == Split(arg)
            ch(i) == u8_from_str(parts[i]).val[1]
            all_parse == \A i \in 1..Len(parts) : is_ok(u8_from_str(parts[i]))
        IN  /\ ParseRes.tag \in {"Ok", "Err"}
            /\ Len(parts) \notin {1, 3, 4} => is_err(ParseRes)
            /\ (Len(parts) = 1 /\ all_parse) => ParseRes = OkOf(<< ch(1), ch(1), ch(1), 255 >>)
            /\ (Len(parts) = 3 /\ all_parse) => ParseRes = OkOf(<< ch(1), ch(2), ch(3), 255 >>)
            /\ (Len(parts) = 4 /\ all_parse) => ParseRes = OkOf(<< ch(1), ch(2), ch(3), ch(4) >>)

\* ------------------------------------------------ properties of the batch driver
\* C27 (as claimed): for any two distinct input files handled by concurrent
\* workers, the output paths derived from the output pattern (each * replaced
\* by the file's base name) are distinct, so no two workers ever write the
\* same output file.
C27_OutputPathsDistinct ==
    \A i, j \in 1..Len(files) :
        (i # j /\ files[i] # files[j]) =>
            /\ (workers[i].pc \notin {"start", "failing"} /\ workers[j].pc \notin {"start", "failing"})
                  => workers[i].out_path # workers[j].out_path
            /\ \A w, v \in writes : (w[1] = i /\ v[1] = j) => w[2] # v[2]

\* Processing file i has returned an error.
Failed(i) == workers[i].processed = "Err"

\* C30: if processing an image returns an error, no output file is saved for
\* that image, the process ends with a non-zero exit status and the success
\* message is never printed afterwards; an image is saved only after its
\* processing has succeeded.
C30_ErrorSurfaced ==
    /\ [](\A i \in 1..Len(files) :
            /\ Failed(i) =>
                  /\ workers[i].pc = "failing"
                  /\ \A w \in writes : w[1] # i
                  /\ pc # "success"
                  /\ exit_code \in {None, Some(1)}
            /\ (\E w \in writes : w[1] = i) => workers[i].processed = "Ok")
    /\ \A n \in 1..MaxFiles :
          (n =< Len(files) /\ Failed(n)) ~> (exit_code = Some(1) /\ pc = "exited")

C30_Witness ==
    /\ Len(files) = 2
    /\ Failed(1)
    /\ workers[2].pc = "saved"
    /\ writes = {<< 2, workers[2].out_path >>}
    /\ exit_code = Some(1)
    /\ pc = "exited"

\* ---------------------------------------------- properties of incremental scaling
\* What scale_image returns for the image without incremental scaling.
NonIncremental == {scale_image_simple(image, width, height, mode, r) : r \in Roundings}

\* Every halved image is at least as large as the target, and was halved from
\* an image more than 3 times the target in width and in height.
NeverUndershoots ==
    is_some(img) =>
        /\ unwrap(img).width >= width /\ unwrap(img).height >= height
        /\ 2 * unwrap(img).width + 1 > 3 * width
        /\ 2 * unwrap(img).height + 1 > 3 * height

====
